---- MODULE Spec2Model ----
(***************************************************************************)
(* Land Scraper browser extension: the content script's crawl state        *)
(* machine (content.js), the persisted store it shares with the popup and  *)
(* the background worker, and the pure helpers the crawl relies on.        *)
(*                                                                         *)
(* Conventions.                                                            *)
(*  - A JavaScript value that may be undefined/null is a sequence: <<>> is *)
(*    absent, <<v>> is the value v.                                        *)
(*  - An async function is a task with a pc; one action is the synchronous *)
(*    code between two awaits.  A chrome.storage call takes effect when it *)
(*    is issued (calls of one context are applied in issue order) and the  *)
(*    awaiting task resumes in a later step.                               *)
(*  - Coordinates are tenths of a degree (69 is 6.9).                      *)
(*  - A delay in seconds is the pair <<whole seconds, thousandths>>.       *)
(***************************************************************************)
EXTENDS Integers, Sequences, FiniteSets, TLC

(***************************************************************************)
(* Bounds of the model                                                     *)
(***************************************************************************)
NPages == 3
MaxCards == 2
MaxStore == 4
MaxStarts == 1
MaxRestarts == 2
MaxStops == 1
MaxReloads == 1
FilterCards == 3
MaxToggles == 1
MaxTokens == 3
MaxMeasures == 2
MaxFieldLen == 2
MaxExport == 2

(***************************************************************************)
(* Program constants                                                       *)
(***************************************************************************)
DEFAULT_PAGE_DELAY == 2500
\* a text is the sequence of its characters
Malabe == <<"m", "a", "l">>
Kandy == <<"k", "a", "n">>
Colombo7 == <<"c", "o", "l", "o", "m", "b", "o">>
DEFAULT_LOCATIONS == {Malabe}
LatMin == 59
LatMax == 99
LngMin == 795
LngMax == 819

(***************************************************************************)
(* Optional values and JavaScript coercions                                *)
(***************************************************************************)
None == <<>>
Some(v) == <<v>>

\* x !== false
NotFalse(x) == x # Some(FALSE)

\* x === true
IsTrue(x) == x = Some(TRUE)

\* truthiness of an optional number
TruthyNum(x) == x # None /\ x[1] # 0

(***************************************************************************)
(* Input domains                                                           *)
(***************************************************************************)
Pages == 1..NPages
Urls == {1, 2}
Sites == {"ikman", "lpw"}
Locs == {Malabe, Kandy}

\* page delay in ms -> seconds, as goToNextPage stores it (pageDelay / 1000)
ToSeconds(ms) == <<ms \div 1000, ms % 1000>>

\* seconds -> ms, as checkAndResume and the popup compute it (s * 1000)
ToMs(s) == s[1] * 1000 + s[2]

\* (data.pageDelay || 2.5) * 1000
ResumeDelay(stored) ==
  IF stored = None \/ stored[1] = <<0, 0>> THEN ToMs(<<2, 500>>) ELSE ToMs(stored[1])

\* options.pageDelay || DEFAULT_PAGE_DELAY
StartDelay(opt) == IF TruthyNum(opt) THEN opt[1] ELSE DEFAULT_PAGE_DELAY

(***************************************************************************)
(* Prices                                                                  *)
(***************************************************************************)
\* Math.round(a / b) for b > 0: the nearest integer, a half going up
MathRound(a, b) == (2 * a + b) \div (2 * b)

\* the heuristic dividing whenever the price is not below 500,000
DivideFromHalfMillion(price, size, isPricePerPerch) ==
  IF ~TruthyNum(price) \/ ~TruthyNum(size) \/ size[1] <= 0 THEN None
  ELSE IF isPricePerPerch THEN price
  ELSE IF price[1] < 500000 THEN price
  ELSE Some(MathRound(price[1], size[1]))

calculatePricePerPerch(price, size, isPricePerPerch) ==
  IF ~TruthyNum(price) \/ ~TruthyNum(size) \/ size[1] <= 0 THEN None
  ELSE IF isPricePerPerch THEN price
  ELSE IF price[1] > 5000000 /\ size[1] < 50 THEN Some(MathRound(price[1], size[1]))
  ELSE IF price[1] < 500000 THEN price
  ELSE IF price[1] > 1000000 THEN Some(MathRound(price[1], size[1]))
  ELSE price

(***************************************************************************)
(* Coordinates                                                             *)
(***************************************************************************)
NoCoords == [lat |-> None, lng |-> None]

\* A map URL is the triple of what the three patterns (place/, @, q=) match in
\* it, each absent or a parsed pair <<lat, lng>>.
FirstMatch(url) ==
  IF url[1] # None THEN url[1] ELSE IF url[2] # None THEN url[2] ELSE url[3]

extractCoordsFromGoogleMaps(url) ==
  IF url = None \/ FirstMatch(url[1]) = None
  THEN NoCoords
  ELSE [lat |-> Some(FirstMatch(url[1])[1][1]), lng |-> Some(FirstMatch(url[1])[1][2])]

\* lat >= 5.9 && lat <= 9.9 && lng >= 79.5 && lng <= 81.9
InSriLanka(lat, lng) == lat >= LatMin /\ lat <= LatMax /\ lng >= LngMin /\ lng <= LngMax

\* the first candidate of the script patterns that passes the bounds test
RECURSIVE FirstValid(_)
FirstValid(cands) ==
  IF cands = <<>> THEN None
  ELSE IF InSriLanka(Head(cands)[1], Head(cands)[2]) THEN Some(Head(cands))
  ELSE FirstValid(Tail(cands))

\* coords.lat && coords.lng
BothTruthy(c) == TruthyNum(c.lat) /\ TruthyNum(c.lng)

FromMapLink(doc) ==
  IF BothTruthy(extractCoordsFromGoogleMaps(doc.mapLink))
  THEN extractCoordsFromGoogleMaps(doc.mapLink) ELSE NoCoords

FromIframe(doc, r) ==
  IF ~TruthyNum(r.lat) /\ BothTruthy(extractCoordsFromGoogleMaps(doc.iframe))
  THEN extractCoordsFromGoogleMaps(doc.iframe) ELSE r

FromScripts(doc, r) ==
  IF ~TruthyNum(r.lat) /\ FirstValid(doc.scripts) # None
  THEN [lat |-> Some(FirstValid(doc.scripts)[1][1]), lng |-> Some(FirstValid(doc.scripts)[1][2])]
  ELSE r

FromDataAttrs(doc, r) ==
  IF /\ ~TruthyNum(r.lat)
     /\ doc.dataAttr # None
     /\ doc.dataAttr[1][1] # 0 /\ doc.dataAttr[1][2] # 0
     /\ InSriLanka(doc.dataAttr[1][1], doc.dataAttr[1][2])
  THEN [lat |-> Some(doc.dataAttr[1][1]), lng |-> Some(doc.dataAttr[1][2])]
  ELSE r

NoInfo == [lat |-> None, lng |-> None, postedDate |-> None, address |-> None]

\* the extraction applied to whatever body the response carries
ParseAnyResponse(doc, st) ==
  LET c == FromDataAttrs(doc, FromScripts(doc, FromIframe(doc, FromMapLink(doc))))
  IN [lat |-> c.lat, lng |-> c.lng,
      postedDate |-> IF st = "ikman" THEN doc.postedDate ELSE None,
      address |-> IF st = "ikman" THEN doc.address ELSE None]

\* doc.ok is FALSE when the fetch fails, the status is not 2xx or parsing throws
fetchDetailPageInfo(doc, st) ==
  IF ~doc.ok THEN NoInfo
  ELSE LET c == FromDataAttrs(doc, FromScripts(doc, FromIframe(doc, FromMapLink(doc))))
       IN [lat |-> c.lat, lng |-> c.lng,
           postedDate |-> IF st = "ikman" THEN doc.postedDate ELSE None,
           address |-> IF st = "ikman" THEN doc.address ELSE None]

(***************************************************************************)
(* Site adapters                                                           *)
(***************************************************************************)
\* extractFromCard returns null
NoData == [url |-> None]

\* an exception leaves extractFromCard
Thrown == [url |-> None, thrown |-> TRUE]

IsThrown(data) == "thrown" \in DOMAIN data

\* IkmanScraper.extractFromCard without its try/catch
IkmanExtractUncaught(card) ==
  IF card.broken THEN Thrown
  ELSE IF card.url = None THEN NoData
  ELSE [url |-> card.url, title |-> card.title, address |-> card.loc,
        latitude |-> None, longitude |-> None, postedDate |-> None]

\* a broken card is one on which a statement of the try block throws; the catch
\* returns null
IkmanExtractFromCard(card) ==
  IF card.broken THEN NoData
  ELSE IF card.url = None THEN NoData
  ELSE [url |-> card.url, title |-> card.title, address |-> card.loc,
        latitude |-> None, longitude |-> None, postedDate |-> None]

LPWExtractFromCard(card) ==
  IF card.broken THEN NoData
  ELSE IF card.url = None THEN NoData
  ELSE LET coords == IF card.map # None THEN extractCoordsFromGoogleMaps(card.map)
                     ELSE NoCoords
       IN [url |-> card.url, title |-> card.title, address |-> card.loc,
           latitude |-> coords.lat, longitude |-> coords.lng, postedDate |-> None]

\* IkmanScraper.getListingCards keeps the first element of each listing URL
RECURSIVE IkmanGetListingCards(_)
IkmanGetListingCards(found) ==
  IF found = <<>> THEN <<>>
  ELSE LET before == IkmanGetListingCards(SubSeq(found, 1, Len(found) - 1))
           el == found[Len(found)]
       IN IF el.url # None /\ \A i \in 1..Len(before) : before[i].url # el.url
          THEN Append(before, el) ELSE before

\* LPWScraper.getListingCards returns every element the selector matches
LPWGetListingCards(found) == found

getListingCards(st, found) ==
  IF st = "ikman" THEN IkmanGetListingCards(found) ELSE LPWGetListingCards(found)

extractFromCard(st, card) ==
  IF st = "ikman" THEN IkmanExtractFromCard(card) ELSE LPWExtractFromCard(card)

AbsUrl(p) == [page |-> p, rel |-> FALSE]
RelUrl(p) == [page |-> p, rel |-> TRUE]

\* new URL(u, window.location.origin).toString(): the canonical page key
Normalize(u) == u.page

IkmanGetNextPageUrl(cur, dom) ==
  IF dom.nextBtn # None /\ dom.nextBtn[1] = cur + 1 THEN Some(AbsUrl(cur + 1))
  ELSE IF (cur + 1) \in dom.links THEN Some(AbsUrl(cur + 1))
  ELSE IF dom.links # {} \/ dom.pagination THEN Some(AbsUrl(cur + 1))
  ELSE None

LPWGetNextPageUrl(cur, dom) ==
  IF dom.nextBtn # None THEN Some(AbsUrl(dom.nextBtn[1]))
  ELSE IF ~dom.cards THEN None
  ELSE Some(RelUrl(cur + 1))

getNextPageUrl(st, cur, dom) ==
  IF st = "ikman" THEN IkmanGetNextPageUrl(cur, dom) ELSE LPWGetNextPageUrl(cur, dom)

Doms == [nextBtn : {None} \cup {Some(p) : p \in Pages}, links : SUBSET Pages,
         pagination : BOOLEAN, cards : BOOLEAN]

\* what the adapter can return on page cur, over the documents of a site of NPages pages
NextUrls(st, cur) ==
  {u \in {getNextPageUrl(st, cur, dom) : dom \in Doms} : u # None => Normalize(u[1]) \in Pages}


(***************************************************************************)
(* Record store                                                            *)
(***************************************************************************)
ExistingUrls(existing) == {existing[i].url : i \in 1..Len(existing)}

\* saveListings without its test of existingUrls
NeverDupe(existing, l) == FALSE

\* existingUrls.has(l.url)
IsDupe(existing, l) == l.url \in ExistingUrls(existing)

\* newListings.filter(l => !existingUrls.has(l.url))
UniqueNew(existing, newListings) ==
  SelectSeq(newListings, LAMBDA l : ~IsDupe(existing, l))

\* [...existing, ...uniqueNew]
Updated(existing, newListings) == existing \o UniqueNew(existing, newListings)

\* saveListings taking a failed read for an empty collection
SaveOverFailedRead(existing, newListings) ==
  IF existing = None THEN [updated |-> Some(newListings), ret |-> Len(newListings)]
  ELSE [updated |-> Some(Updated(existing[1], newListings)),
        ret |-> Len(UniqueNew(existing[1], newListings))]

\* saveListings once its read has settled (existing is None when the read
\* failed): the collection it writes, if it writes, and the number it returns
saveListings(existing, newListings) ==
  IF existing = None THEN [updated |-> None, ret |-> 0]
  ELSE [updated |-> Some(Updated(existing[1], newListings)),
        ret |-> Len(UniqueNew(existing[1], newListings))]

(***************************************************************************)
(* State                                                                   *)
(***************************************************************************)
VARIABLES
  storage,          \* chrome.storage.local
  site,             \* window.location.hostname of the tab
  href,             \* window.location.href of the page context (canonical page key)
  isRunning,        \* content.js module state of the page context
  filterLocations,
  scrapeDetails,
  pageDelay,
  visitedPages,     \* a JavaScript Set: insertion-ordered, no duplicates
  customLocations,
  runs,             \* the async activations of the page context (checkAndResume, startScraping)
  popup,            \* the popup's start/stop handlers
  left,             \* how many more commands the environment may issue
  hist,             \* history of the behaviour, read by the properties only
  lab               \* state of the store harness (SpecStore)

memory == <<isRunning, filterLocations, scrapeDetails, pageDelay, visitedPages, customLocations>>
vars == <<storage, site, href, memory, runs, popup, left, hist, lab>>

Task(pc) ==
  [pc |-> pc, cards |-> <<>>, listings |-> <<>>, existing |-> None, num |-> 0,
   next |-> None, guard |-> "", outcome |-> "", snap |-> None, saved |-> None,
   skippedNull |-> 0]

Done(outcome) == [Task("done") EXCEPT !.outcome = outcome]

\* chrome.runtime.onInstalled: the defaults written at installation
InstalledStorage ==
  [listings |-> <<>>, pagesScraped |-> 0, isScraping |-> FALSE,
   filterLocations |-> Some(TRUE), scrapeDetails |-> None, pageDelay |-> None,
   visitedPages |-> None, customLocations |-> None]

\* visitedPages.add(key)
SetAdd(set, key) ==
  IF \E i \in 1..Len(set) : set[i] = key THEN set ELSE Append(set, key)

SetHas(set, key) == \E i \in 1..Len(set) : set[i] = key

\* new Set(array)
RECURSIVE NewSet(_)
NewSet(array) ==
  IF array = <<>> THEN <<>>
  ELSE SetAdd(NewSet(SubSeq(array, 1, Len(array) - 1)), array[Len(array)])

\* Array.from(set)
ArrayFrom(set) == set

\* matchesTargetLocation(data.address) || matchesTargetLocation(data.title)
LowerChar(c) ==
  CASE c = "M" -> "m" [] c = "A" -> "a" [] c = "L" -> "l"
    [] c = "K" -> "k" [] c = "N" -> "n" [] c = "P" -> "p"
    [] c = "R" -> "r" [] c = "C" -> "c" [] c = "E" -> "e"
    [] c = "S" -> "s" [] OTHER -> c

\* String.prototype.toLowerCase
ToLowerCase(text) == [i \in 1..Len(text) |-> LowerChar(text[i])]

\* String.prototype.includes
Includes(text, sub) ==
  \E i \in 0..(Len(text) - Len(sub)) : SubSeq(text, i + 1, i + Len(sub)) = sub

\* the test comparing the whole text with a location
EqualsTargetLocation(locationText) ==
  /\ locationText # <<>>
  /\ \E loc \in customLocations : ToLowerCase(locationText) = ToLowerCase(loc)

matchesTargetLocation(locationText) ==
  /\ locationText # <<>>
  /\ \E loc \in customLocations : Includes(ToLowerCase(locationText), ToLowerCase(loc))

\* the merge writing the latitude alone
EnrichLatitudeOnly(data, info) ==
  IF TruthyNum(info.lat) THEN [data EXCEPT !.latitude = info.lat] ELSE data

\* the detail info is merged into the card's record
Enrich(data, info) ==
  LET withCoords == IF TruthyNum(info.lat) /\ TruthyNum(info.lng)
                    THEN [data EXCEPT !.latitude = info.lat, !.longitude = info.lng]
                    ELSE data
      withDate == IF info.postedDate # None
                  THEN [withCoords EXCEPT !.postedDate = info.postedDate]
                  ELSE withCoords
  IN IF info.address # None /\ Len(info.address[1]) > 3
     THEN [withDate EXCEPT !.address = info.address[1]]
     ELSE withDate

\* the card loop of scrapeCurrentPage up to its next await: the cards not yet
\* handled (the head is the card whose detail page is being fetched), the
\* records pushed so far, the counter skippedNull, whether the loop is
\* suspended on a fetch, and whether an exception has left the loop
RECURSIVE ScrapeLoop(_, _, _)
ScrapeLoop(cards, listings, skippedNull) ==
  IF cards = <<>>
  THEN [cards |-> <<>>, listings |-> listings, skippedNull |-> skippedNull,
        wait |-> FALSE, thrown |-> FALSE]
  ELSE LET data == extractFromCard(site, Head(cards))
       IN IF IsThrown(data)
          THEN [cards |-> cards, listings |-> listings, skippedNull |-> skippedNull,
                wait |-> FALSE, thrown |-> TRUE]
          ELSE IF data.url = None THEN ScrapeLoop(Tail(cards), listings, skippedNull + 1)
          ELSE IF /\ filterLocations
                  /\ ~matchesTargetLocation(data.address)
                  /\ ~matchesTargetLocation(data.title)
               THEN ScrapeLoop(Tail(cards), listings, skippedNull)
          ELSE IF scrapeDetails
               THEN [cards |-> cards, listings |-> listings, skippedNull |-> skippedNull,
                     wait |-> TRUE, thrown |-> FALSE]
          ELSE ScrapeLoop(Tail(cards), Append(listings, data), skippedNull)

\* saveListings issues chrome.storage.local.get(['listings']): the read fails
\* (readOk = FALSE) or returns the collection as it is now
IssueSaveGet(listings, readOk) ==
  [Task("save_get") EXCEPT !.listings = listings,
                           !.existing = IF readOk THEN Some(storage.listings) ELSE None]

\* updatePagesCount issues chrome.storage.local.get(['pagesScraped'])
IssuePagesGet == [Task("pages_get") EXCEPT !.num = storage.pagesScraped]

\* runScraper after scrapeCurrentPage has returned, suspended or thrown; at
\* its return skippedNull is the number its summary line logs
AfterLoop(r, readOk) ==
  IF r.thrown THEN Done("failed")
  ELSE IF r.wait
       THEN [Task("fetch") EXCEPT !.cards = r.cards, !.listings = r.listings,
                                  !.skippedNull = r.skippedNull]
  ELSE IF Len(r.listings) > 0
       THEN [IssueSaveGet(r.listings, readOk) EXCEPT !.skippedNull = r.skippedNull]
  ELSE [IssuePagesGet EXCEPT !.skippedNull = r.skippedNull]

\* runScraper from its entry to its first await
BeginRun(running, cards, throws, readOk) ==
  IF ~running THEN Done("skipped")
  ELSE IF throws THEN Done("failed")
  ELSE AfterLoop(ScrapeLoop(getListingCards(site, cards), <<>>, 0), readOk)

\* every way runScraper can begin on a page that shows one of cardSeqs
BeginRuns(running, cardSeqs) ==
  {BeginRun(running, cards, throws, readOk) :
     cards \in cardSeqs, throws \in BOOLEAN, readOk \in BOOLEAN}

\* a page cycle starts when runScraper passes its isRunning test
CycleStarted(old, new) ==
  /\ old.pc \in {"start_set", "settle"}
  /\ new.pc # old.pc
  /\ ~(new.pc = "done" /\ new.outcome = "skipped")

Config == [filterLocations |-> filterLocations, scrapeDetails |-> scrapeDetails,
           pageDelay |-> pageDelay, visitedPages |-> visitedPages]

\* a fresh page context: module state at its initial values, checkAndResume
\* has issued its chrome.storage.local.get
FreshContext(page) ==
  /\ href' = page
  /\ isRunning' = FALSE
  /\ filterLocations' = TRUE
  /\ scrapeDetails' = FALSE
  /\ pageDelay' = DEFAULT_PAGE_DELAY
  /\ visitedPages' = <<>>
  /\ customLocations' = DEFAULT_LOCATIONS
  /\ runs' = << [Task("resume_get") EXCEPT !.snap = Some(storage')] >>

NoLab == [phase |-> "off"]

\* what the properties need of the past: a STOP or a failure since the last
\* START, a UI write since the last state write, the configuration at the last
\* navigation, the setting the UI wrote during a page cycle, where each task
\* stood when STOP was received, the pages on which a page cycle has begun
\* since the last START, and the visited set at the last navigation since then
NoHist == [stopped |-> FALSE, failed |-> FALSE, uiWrote |-> FALSE, navCfg |-> None,
           uiSet |-> None, stopAt |-> <<>>, seen |-> {}, navVisited |-> <<>>]

\* a runScraper execution past its isRunning test and not yet returned
InCycle(task) ==
  task.pc \in {"fetch", "save_get", "save_set", "pages_get", "pages_set", "page_sleep",
               "nav_set", "complete_set", "complete_get"}

\* a page cycle before goToNextPage has written the crawl state
BeforePersist(task) ==
  task.pc \in {"fetch", "save_get", "save_set", "pages_get", "pages_set", "page_sleep"}

InitWith(budget) ==
  /\ storage = InstalledStorage
  /\ site \in Sites
  /\ href = 1
  /\ isRunning = FALSE
  /\ filterLocations = TRUE
  /\ scrapeDetails = FALSE
  /\ pageDelay = DEFAULT_PAGE_DELAY
  /\ visitedPages = <<>>
  /\ customLocations = DEFAULT_LOCATIONS
  /\ runs = << [Task("resume_get") EXCEPT !.snap = Some(InstalledStorage)] >>
  /\ popup = [pc |-> "idle", cfg |-> None]
  /\ left = budget
  /\ hist = NoHist
  /\ lab = NoLab

(***************************************************************************)
(* Commands handled by the content script                                  *)
(***************************************************************************)
\* onMessage GET_STATUS: the response
GetStatus == [isRunning |-> isRunning, site |-> site]

\* startScraping without its write of visitedPages
KeepVisited(st) == st

\* startScraping: await chrome.storage.local.set({ visitedPages: [] })
ClearVisited(st) == [st EXCEPT !.visitedPages = Some(<<>>)]

\* onMessage START_SCRAPING followed by startScraping up to its await
StartScraping(msg) ==
  /\ customLocations' = IF msg.locations # None
                        THEN {ToLowerCase(l) : l \in msg.locations[1]}
                        ELSE customLocations
  /\ isRunning' = TRUE
  /\ filterLocations' = NotFalse(msg.filterLocations)
  /\ scrapeDetails' = IsTrue(msg.scrapeDetails)
  /\ pageDelay' = StartDelay(msg.pageDelay)
  /\ visitedPages' = <<>>
  /\ storage' = ClearVisited(storage)
  /\ runs' = Append(runs, Task("start_set"))
  /\ left' = [left EXCEPT !.starts = @ - 1]
  /\ hist' = [hist EXCEPT !.stopped = FALSE, !.failed = FALSE, !.stopAt = <<>>,
                          !.seen = {}, !.navVisited = <<>>]
  /\ UNCHANGED <<site, href, lab>>

\* onMessage STOP_SCRAPING: stopScraping
StopScraping ==
  /\ isRunning' = FALSE
  /\ left' = [left EXCEPT !.stops = @ - 1]
  /\ hist' = [hist EXCEPT !.stopped = TRUE,
                          !.stopAt = [t \in 1..Len(runs) |-> runs[t].pc]]
  /\ UNCHANGED <<storage, site, href, filterLocations, scrapeDetails, pageDelay,
                 visitedPages, customLocations, runs, lab>>

(***************************************************************************)
(* The popup and the background worker                                     *)
(***************************************************************************)
\* popup.js startScraping up to the message: the settings are written first
PopupStartClick(cfg) ==
  /\ popup.pc = "idle"
  /\ left.starts > 0
  /\ storage' = [storage EXCEPT !.filterLocations = Some(cfg.filterLocations),
                                !.scrapeDetails = Some(cfg.scrapeDetails),
                                !.pageDelay = Some(cfg.delay)]
  /\ popup' = [pc |-> "start_send", cfg |-> Some(cfg)]
  /\ hist' = [hist EXCEPT !.uiWrote = TRUE]
  /\ UNCHANGED <<site, href, memory, runs, left, lab>>

\* chrome.tabs.sendMessage(currentTabId, { action: 'START_SCRAPING', ... })
PopupStartSend ==
  /\ popup.pc = "start_send"
  /\ StartScraping([filterLocations |-> Some(popup.cfg[1].filterLocations),
                    scrapeDetails |-> Some(popup.cfg[1].scrapeDetails),
                    pageDelay |-> Some(ToMs(popup.cfg[1].delay)),
                    locations |-> Some(DEFAULT_LOCATIONS)])
  /\ popup' = [popup EXCEPT !.pc = "start_mark"]

\* await chrome.storage.local.set({ isScraping: true })
PopupStartMark ==
  /\ popup.pc = "start_mark"
  /\ storage' = [storage EXCEPT !.isScraping = TRUE]
  /\ popup' = [pc |-> "idle", cfg |-> None]
  /\ hist' = [hist EXCEPT !.uiWrote = TRUE]
  /\ UNCHANGED <<site, href, memory, runs, left, lab>>

\* popup.js stopScraping: the STOP message
PopupStopClick ==
  /\ popup.pc = "idle"
  /\ left.stops > 0
  /\ StopScraping
  /\ popup' = [popup EXCEPT !.pc = "stop_mark"]

\* await chrome.storage.local.set({ isScraping: false })
PopupStopMark ==
  /\ popup.pc = "stop_mark"
  /\ storage' = [storage EXCEPT !.isScraping = FALSE]
  /\ popup' = [pc |-> "idle", cfg |-> None]
  /\ hist' = [hist EXCEPT !.uiWrote = TRUE]
  /\ UNCHANGED <<site, href, memory, runs, left, lab>>

\* the settings toggles and the delay selector write one key each
PopupToggle(key, val) ==
  /\ left.uiWrites > 0
  /\ storage' = [storage EXCEPT ![key] = Some(val)]
  /\ left' = [left EXCEPT !.uiWrites = @ - 1]
  /\ hist' = [hist EXCEPT
               !.uiWrote = TRUE,
               !.uiSet = IF \E t \in 1..Len(runs) : BeforePersist(runs[t])
                         THEN Some([key |-> key, val |-> val, navs |-> 0])
                         ELSE None]
  /\ UNCHANGED <<site, href, memory, runs, popup, lab>>

\* background contextMenus.onClicked: START_SCRAPING with filterLocations only
ContextMenuStart ==
  /\ left.starts > (IF popup.pc = "start_send" THEN 1 ELSE 0)
  /\ StartScraping([filterLocations |-> Some(TRUE), scrapeDetails |-> None,
                    pageDelay |-> None, locations |-> None])
  /\ UNCHANGED popup

\* the user reloads the tab: the page context is replaced
Reload ==
  /\ left.reloads > 0
  /\ UNCHANGED <<storage, site, popup, lab>>
  /\ FreshContext(href)
  /\ left' = [left EXCEPT !.reloads = @ - 1]
  /\ hist' = [hist EXCEPT !.stopped = FALSE, !.navCfg = None, !.stopAt = <<>>]

(***************************************************************************)
(* The crawl: checkAndResume, runScraper and what they call                *)
(***************************************************************************)
SetRun(t, task) == runs' = [runs EXCEPT ![t] = task]

Noted(task) ==
  IF task.pc = "done" /\ task.outcome = "skipped" THEN hist
  ELSE IF task.pc = "done" /\ task.outcome = "failed"
       THEN [hist EXCEPT !.failed = TRUE, !.seen = @ \cup {href}]
  ELSE [hist EXCEPT !.seen = @ \cup {href}]

\* checkAndResume: what it restores from the persisted state when isScraping is set
RestoredConfig(data) ==
  [filterLocations |-> NotFalse(data.filterLocations),
   scrapeDetails |-> IsTrue(data.scrapeDetails),
   pageDelay |-> ResumeDelay(data.pageDelay)]

\* checkAndResume after its chrome.storage.local.get, up to sleep(1500)
ResumeGetDone ==
  /\ runs[1].pc = "resume_get"
  /\ LET data == runs[1].snap[1] IN
       /\ customLocations' = IF data.customLocations # None
                             THEN {ToLowerCase(l) : l \in data.customLocations[1]}
                             ELSE customLocations
       /\ visitedPages' = IF data.visitedPages # None THEN NewSet(data.visitedPages[1])
                          ELSE visitedPages
       /\ IF data.isScraping
          THEN /\ filterLocations' = RestoredConfig(data).filterLocations
               /\ scrapeDetails' = RestoredConfig(data).scrapeDetails
               /\ pageDelay' = RestoredConfig(data).pageDelay
               /\ SetRun(1, Task("settle"))
          ELSE /\ UNCHANGED <<filterLocations, scrapeDetails, pageDelay>>
               /\ SetRun(1, Done("skipped"))
  /\ UNCHANGED <<storage, site, href, isRunning, popup, left, hist, lab>>

\* what checkAndResume does to the running flag after the settle delay
AfterSettle(running) == TRUE

\* checkAndResume after sleep(1500): isRunning = true; await runScraper()
SettleDone(cardSeqs) ==
  /\ runs[1].pc = "settle"
  /\ isRunning' = AfterSettle(isRunning)
  /\ \E task \in BeginRuns(isRunning', cardSeqs) :
       /\ SetRun(1, task)
       /\ hist' = Noted(task)
  /\ UNCHANGED <<storage, site, href, filterLocations, scrapeDetails, pageDelay,
                 visitedPages, customLocations, popup, left, lab>>

\* startScraping after its await: runScraper up to its first await
StartSetDone(t, cardSeqs) ==
  /\ runs[t].pc = "start_set"
  /\ \E task \in BeginRuns(isRunning, cardSeqs) :
       /\ SetRun(t, task)
       /\ hist' = Noted(task)
  /\ UNCHANGED <<storage, site, href, memory, popup, left, lab>>

\* scrapeCurrentPage once fetchDetailPageInfo has returned doc's information
AfterFetch(task, doc, readOk) ==
  LET data == Enrich(extractFromCard(site, Head(task.cards)), fetchDetailPageInfo(doc, site))
  IN AfterLoop(ScrapeLoop(Tail(task.cards), Append(task.listings, data),
                          task.skippedNull), readOk)

\* fetchDetailPageInfo has returned: merge, sleep(500), push, go on with the loop
FetchDone(t, docs) ==
  /\ runs[t].pc = "fetch"
  /\ \E task \in {AfterFetch(runs[t], doc, readOk) : doc \in docs, readOk \in BOOLEAN} :
       SetRun(t, task)
  /\ UNCHANGED <<storage, site, href, memory, popup, left, hist, lab>>

\* saveListings after its read: the write of the combined collection (num is the
\* count it will return, uniqueNew.length), or the catch when the read failed
SaveGetDone(t) ==
  /\ runs[t].pc = "save_get"
  /\ LET r == saveListings(runs[t].existing, runs[t].listings)
     IN IF r.updated = None
        THEN /\ SetRun(t, [IssuePagesGet EXCEPT !.saved = Some(r.ret)])
             /\ UNCHANGED storage
        ELSE /\ Len(r.updated[1]) <= MaxStore
             /\ storage' = [storage EXCEPT !.listings = r.updated[1]]
             /\ SetRun(t, [Task("save_set") EXCEPT !.num = r.ret])
  /\ UNCHANGED <<site, href, memory, popup, left, hist, lab>>

\* saveListings returns; updatePagesCount issues its read
SaveSetDone(t) ==
  /\ runs[t].pc = "save_set"
  /\ SetRun(t, [IssuePagesGet EXCEPT !.saved = Some(runs[t].num)])
  /\ UNCHANGED <<storage, site, href, memory, popup, left, hist, lab>>

\* updatePagesCount after its read: the write of the incremented counter
PagesGetDone(t) ==
  /\ runs[t].pc = "pages_get"
  /\ storage' = [storage EXCEPT !.pagesScraped = runs[t].num + 1]
  /\ SetRun(t, Task("pages_set"))
  /\ UNCHANGED <<site, href, memory, popup, left, hist, lab>>

\* runScraper after updatePagesCount: the first isRunning test, then sleep(pageDelay)
PagesSetDone(t) ==
  /\ runs[t].pc = "pages_set"
  /\ SetRun(t, IF ~isRunning THEN Done("halted") ELSE Task("page_sleep"))
  /\ UNCHANGED <<storage, site, href, memory, popup, left, hist, lab>>

\* goToNextPage without its visitedPages.has(nextNormalized) test
NeverVisited(visited, key) == FALSE

\* goToNextPage: visitedPages.has(nextNormalized)
AlreadyVisited(visited, key) == SetHas(visited, key)

\* goToNextPage storing the resume flag alone
PersistFlagOnly(st, visited) == [st EXCEPT !.isScraping = TRUE]

\* goToNextPage: the state written before the navigation
PersistState(st, visited) ==
  [st EXCEPT !.isScraping = TRUE,
             !.filterLocations = Some(filterLocations),
             !.scrapeDetails = Some(scrapeDetails),
             !.pageDelay = Some(ToSeconds(pageDelay)),
             !.visitedPages = Some(ArrayFrom(visited))]

\* runScraper after sleep(pageDelay): the second isRunning test, goToNextPage up
\* to its write, and the completion branch up to its write
PageSleepDone(t) ==
  /\ runs[t].pc = "page_sleep"
  /\ IF ~isRunning
     THEN /\ SetRun(t, Done("halted"))
          /\ UNCHANGED <<storage, memory, hist>>
     ELSE /\ visitedPages' = SetAdd(visitedPages, href)
          /\ \E next \in NextUrls(site, href) :
                 /\ IF next # None /\ ~AlreadyVisited(visitedPages', Normalize(next[1]))
                       /\ Normalize(next[1]) # href
                    THEN /\ storage' = PersistState(storage, visitedPages')
                         /\ SetRun(t, [Task("nav_set") EXCEPT !.next = next])
                         /\ isRunning' = isRunning
                         /\ hist' = [hist EXCEPT !.uiWrote = FALSE]
                    ELSE /\ isRunning' = FALSE
                         /\ storage' = [storage EXCEPT !.isScraping = FALSE]
                         /\ SetRun(t, [Task("complete_set") EXCEPT
                                         !.next = next,
                                         !.guard = IF next = None THEN "none" ELSE "loop"])
                         /\ hist' = hist
          /\ UNCHANGED <<filterLocations, scrapeDetails, pageDelay, customLocations>>
  /\ UNCHANGED <<site, href, popup, left, lab>>

\* goToNextPage after its write: window.location.href = nextUrl
NavSetDone(t) ==
  /\ runs[t].pc = "nav_set"
  /\ UNCHANGED <<storage, site, popup, left, lab>>
  /\ hist' = [hist EXCEPT !.stopped = FALSE, !.stopAt = <<>>,
                          !.navVisited = visitedPages,
                          !.navCfg = IF hist.uiWrote THEN None ELSE Some(Config),
                          !.uiSet = IF @ = None THEN None
                                    ELSE Some([@[1] EXCEPT !.navs = @ + 1])]
  /\ FreshContext(Normalize(runs[t].next[1]))

\* the completion message carrying the number of pages scraped
PagesTotal(data) == data.pagesScraped

\* total: data.listings?.length || 0
CompleteTotal(data) == Len(data.listings)

\* runScraper after set({ isScraping: false }): the read of the listings
CompleteSetDone(t) ==
  /\ runs[t].pc = "complete_set"
  /\ SetRun(t, [runs[t] EXCEPT !.pc = "complete_get", !.num = CompleteTotal(storage)])
  /\ UNCHANGED <<storage, site, href, memory, popup, left, hist, lab>>

\* runScraper sends SCRAPING_COMPLETE and returns
CompleteGetDone(t) ==
  /\ runs[t].pc = "complete_get"
  /\ SetRun(t, [runs[t] EXCEPT !.pc = "done", !.outcome = "completed"])
  /\ UNCHANGED <<storage, site, href, memory, popup, left, hist, lab>>

(***************************************************************************)
(* Input domains of the specifications                                     *)
(***************************************************************************)
SeqsUpTo(S, n) == UNION {[1..k -> S] : k \in 0..n}

Card(u, loc, map) ==
  [url |-> u, title |-> <<>>, loc |-> loc, map |-> map, broken |-> FALSE]
TitledCard(u, title, loc) == [Card(u, loc, None) EXCEPT !.title = title]

NoLinks == [ok |-> TRUE, mapLink |-> None, iframe |-> None, scripts |-> <<>>,
            dataAttr |-> None, postedDate |-> None, address |-> None]

CtlCardSeqs == SeqsUpTo({Card(Some(1), Malabe, None)}, 1)
CtlDocs == {NoLinks, [NoLinks EXCEPT !.ok = FALSE]}
CtlCfgs == {[filterLocations |-> FALSE, scrapeDetails |-> TRUE, delay |-> <<5, 0>>]}

\* the steps of the crawl on pages that show one of cardSeqs and whose detail
\* documents are among docs
CrawlStep(cardSeqs, docs) ==
  \/ ResumeGetDone
  \/ SettleDone(cardSeqs)
  \/ \E t \in 1..Len(runs) : StartSetDone(t, cardSeqs)
  \/ \E t \in 1..Len(runs) : FetchDone(t, docs)
  \/ \E t \in 1..Len(runs) : SaveGetDone(t)
  \/ \E t \in 1..Len(runs) : SaveSetDone(t)
  \/ \E t \in 1..Len(runs) : PagesGetDone(t)
  \/ \E t \in 1..Len(runs) : PagesSetDone(t)
  \/ \E t \in 1..Len(runs) : PageSleepDone(t)
  \/ \E t \in 1..Len(runs) : NavSetDone(t)
  \/ \E t \in 1..Len(runs) : CompleteSetDone(t)
  \/ \E t \in 1..Len(runs) : CompleteGetDone(t)

StartCommand(cfgs) ==
  \/ \E cfg \in cfgs : PopupStartClick(cfg)
  \/ PopupStartSend
  \/ PopupStartMark
  \/ ContextMenuStart

(***************************************************************************)
(* Spec: one crawl under STOP and a reload of the tab                      *)
(***************************************************************************)
Init == InitWith([starts |-> MaxStarts, stops |-> MaxStops, reloads |-> MaxReloads,
                  uiWrites |-> 0])

Next ==
  \/ StartCommand(CtlCfgs)
  \/ PopupStopClick
  \/ PopupStopMark
  \/ Reload
  \/ CrawlStep(CtlCardSeqs, CtlDocs)

Spec == Init /\ [][Next]_vars

(***************************************************************************)
(* SpecRestart: START commands arriving while a crawl is under way         *)
(***************************************************************************)
InitRestart == InitWith([starts |-> MaxRestarts, stops |-> 0, reloads |-> 0, uiWrites |-> 0])

NextRestart ==
  \/ StartCommand(CtlCfgs)
  \/ CrawlStep(CtlCardSeqs, CtlDocs)

SpecRestart == InitRestart /\ [][NextRestart]_vars

(***************************************************************************)
(* SpecGeo: one crawl over pages whose cards and detail documents carry    *)
(* coordinates in every place the code reads them from                     *)
(***************************************************************************)
Colombo == <<69, 798>>       \* 6.9, 79.8
London == <<515, -1>>        \* 51.5, -0.1
MapUrl(place, at, q) == Some(<<place, at, q>>)

GeoCards ==
  {Card(Some(1), Malabe, None),
   Card(Some(1), Malabe, MapUrl(None, None, None)),
   Card(Some(1), Malabe, MapUrl(None, None, Some(London))),
   Card(Some(2), Malabe, MapUrl(Some(Colombo), None, Some(London))),
   Card(None, Malabe, None)}

GeoCardSeqs == SeqsUpTo(GeoCards, MaxCards)

GeoDocs ==
  {NoLinks,
   [NoLinks EXCEPT !.ok = FALSE],
   [NoLinks EXCEPT !.mapLink = MapUrl(None, Some(London), None)],
   [NoLinks EXCEPT !.mapLink = MapUrl(None, None, Some(<<0, 798>>)),
                   !.iframe = MapUrl(Some(Colombo), None, None)],
   [NoLinks EXCEPT !.iframe = MapUrl(None, None, Some(London))],
   [NoLinks EXCEPT !.scripts = <<London, Colombo>>],
   [NoLinks EXCEPT !.scripts = <<London>>, !.dataAttr = Some(London)],
   [NoLinks EXCEPT !.dataAttr = Some(Colombo)]}

GeoCfgs == {[filterLocations |-> TRUE, scrapeDetails |-> TRUE, delay |-> <<2, 0>>]}

InitGeo == InitWith([starts |-> MaxStarts, stops |-> 0, reloads |-> 0, uiWrites |-> 0])

NextGeo ==
  \/ StartCommand(GeoCfgs)
  \/ CrawlStep(GeoCardSeqs, GeoDocs)

SpecGeo == InitGeo /\ [][NextGeo]_vars

(***************************************************************************)
(* SpecStore: saveListings called twice in a row with the same batch, on   *)
(* every store and every batch of the bounded sizes                        *)
(***************************************************************************)
Record(u, a) == [url |-> Some(u), address |-> a, latitude |-> None, longitude |-> None]
Records == {Record(u, a) : u \in Urls, a \in Locs}

InitStore ==
  /\ \E st \in SeqsUpTo(Records, MaxStore - MaxCards) :
       storage = [InstalledStorage EXCEPT !.listings = st]
  /\ \E batch \in SeqsUpTo(Records, MaxCards) :
       lab = [phase |-> "init", batch |-> batch, once |-> <<>>, first |-> 0, second |-> 0]
  /\ site \in Sites
  /\ href = 1
  /\ isRunning = TRUE
  /\ filterLocations = TRUE
  /\ scrapeDetails = FALSE
  /\ pageDelay = DEFAULT_PAGE_DELAY
  /\ visitedPages = <<>>
  /\ customLocations = DEFAULT_LOCATIONS
  /\ runs = << Done("skipped") >>
  /\ popup = [pc |-> "idle", cfg |-> None]
  /\ left = [starts |-> 0, stops |-> 0, reloads |-> 0, uiWrites |-> 0]
  /\ hist = NoHist

\* runScraper: await saveListings(listings), the first call
FirstSave ==
  /\ lab.phase = "init"
  /\ runs' = << IssueSaveGet(lab.batch, TRUE) >>
  /\ lab' = [lab EXCEPT !.phase = "first"]
  /\ UNCHANGED <<storage, site, href, memory, popup, left, hist>>

\* the first call has returned: saveListings is called with the same batch again
SecondSave ==
  /\ lab.phase = "first"
  /\ runs[1].pc = "save_set"
  /\ runs' = << IssueSaveGet(lab.batch, TRUE) >>
  /\ lab' = [lab EXCEPT !.phase = "second", !.once = storage.listings, !.first = runs[1].num]
  /\ UNCHANGED <<storage, site, href, memory, popup, left, hist>>

\* the second call has returned
SecondReturned ==
  /\ lab.phase = "second"
  /\ runs[1].pc = "save_set"
  /\ runs' = << Done("completed") >>
  /\ lab' = [lab EXCEPT !.phase = "done", !.second = runs[1].num]
  /\ UNCHANGED <<storage, site, href, memory, popup, left, hist>>

NextStore ==
  \/ FirstSave
  \/ SaveGetDone(1)
  \/ SecondSave
  \/ SecondReturned

SpecStore == InitStore /\ [][NextStore]_vars

(***************************************************************************)
(* SpecFilter: one card loop over every page of up to FilterCards cards,   *)
(* under every filter setting and target list                              *)
(***************************************************************************)
FilterTexts == {<<>>, <<"x", "M", "a", "L">>, Kandy}
FilterTitles == {<<>>, <<"M", "A", "L", "x">>}
FilterPageCards ==
  {TitledCard(u, title, loc) :
     u \in {None, Some(1), Some(2)}, title \in FilterTitles, loc \in FilterTexts}
FilterLists == {{}, {Malabe}, {<<"K", "A", "N">>}}

InitFilter ==
  /\ storage = InstalledStorage
  /\ site \in Sites
  /\ href = 1
  /\ isRunning = TRUE
  /\ filterLocations \in BOOLEAN
  /\ scrapeDetails \in BOOLEAN
  /\ pageDelay = DEFAULT_PAGE_DELAY
  /\ visitedPages = <<>>
  /\ customLocations \in FilterLists
  /\ runs = << Task("start_set") >>
  /\ popup = [pc |-> "idle", cfg |-> None]
  /\ left = [starts |-> 0, stops |-> 0, reloads |-> 0, uiWrites |-> 0]
  /\ hist = NoHist
  /\ \E page \in SeqsUpTo(FilterPageCards, FilterCards) : lab = [phase |-> "page", page |-> page]

\* the page shown is lab.page; the detail documents carry nothing
NextFilter ==
  \/ StartSetDone(1, {lab.page})
  \/ FetchDone(1, {NoLinks})

SpecFilter == InitFilter /\ [][NextFilter]_vars

(***************************************************************************)
(* SpecPrice: calculatePricePerPerch applied to prices and sizes around    *)
(* every threshold of the heuristic                                        *)
(***************************************************************************)
PriceInputs ==
  {None} \cup {Some(n) : n \in {-1, 0, 1, 300000, 499999, 500000, 750000, 1000000,
                                1000001, 5000000, 5000001, 8000000}}
SizeInputs == {None} \cup {Some(n) : n \in {-3, 0, 1, 3, 10, 20, 49, 50, 51}}

InitPrice ==
  /\ storage = InstalledStorage
  /\ site \in Sites
  /\ href = 1
  /\ isRunning = FALSE
  /\ filterLocations = TRUE
  /\ scrapeDetails = FALSE
  /\ pageDelay = DEFAULT_PAGE_DELAY
  /\ visitedPages = <<>>
  /\ customLocations = DEFAULT_LOCATIONS
  /\ runs = << Done("skipped") >>
  /\ popup = [pc |-> "idle", cfg |-> None]
  /\ left = [starts |-> 0, stops |-> 0, reloads |-> 0, uiWrites |-> 0]
  /\ hist = NoHist
  /\ \E price \in PriceInputs, size \in SizeInputs, perPerch \in BOOLEAN :
       lab = [phase |-> "price", price |-> price, size |-> size, perPerch |-> perPerch,
              out |-> None]

\* extractFromCard: const pricePerPerch = calculatePricePerPerch(price, size, isPricePerPerch)
PricePerPerch ==
  /\ lab.phase = "price"
  /\ lab' = [lab EXCEPT !.phase = "priced",
                        !.out = calculatePricePerPerch(lab.price, lab.size, lab.perPerch)]
  /\ UNCHANGED <<storage, site, href, memory, runs, popup, left, hist>>

NextPrice == PricePerPerch

SpecPrice == InitPrice /\ [][NextPrice]_vars

(***************************************************************************)
(* SpecToggle: one crawl during which the user changes one setting in the  *)
(* popup                                                                   *)
(***************************************************************************)
ToggleWrites ==
  {<<"filterLocations", FALSE>>, <<"scrapeDetails", TRUE>>, <<"pageDelay", <<3, 0>>>>}

InitToggle == InitWith([starts |-> MaxStarts, stops |-> 0, reloads |-> 0, uiWrites |-> MaxToggles])

NextToggle ==
  \/ StartCommand(CtlCfgs)
  \/ \E w \in ToggleWrites : PopupToggle(w[1], w[2])
  \/ CrawlStep(CtlCardSeqs, CtlDocs)

SpecToggle == InitToggle /\ [][NextToggle]_vars

(***************************************************************************)
(* SpecRegion: getMunicipalCouncil applied to absent, empty and non-empty  *)
(* location texts, with the GND mapping loaded and not loaded              *)
(***************************************************************************)
\* a page context in which no crawl runs; the harnesses below act on lab alone
IdleContext ==
  /\ storage = InstalledStorage
  /\ site \in Sites
  /\ href = 1
  /\ isRunning = FALSE
  /\ filterLocations = TRUE
  /\ scrapeDetails = FALSE
  /\ pageDelay = DEFAULT_PAGE_DELAY
  /\ visitedPages = <<>>
  /\ customLocations = DEFAULT_LOCATIONS
  /\ runs = << Done("skipped") >>
  /\ popup = [pc |-> "idle", cfg |-> None]
  /\ left = [starts |-> 0, stops |-> 0, reloads |-> 0, uiWrites |-> 0]
  /\ hist = NoHist

RECURSIVE Flatten(_)
Flatten(ss) == IF ss = <<>> THEN <<>> ELSE Head(ss) \o Flatten(Tail(ss))

\* String.prototype.trim
RECURSIVE TrimStart(_)
TrimStart(text) ==
  IF text # <<>> /\ Head(text) = " " THEN TrimStart(Tail(text)) ELSE text
RECURSIVE TrimEnd(_)
TrimEnd(text) ==
  IF text # <<>> /\ text[Len(text)] = " " THEN TrimEnd(SubSeq(text, 1, Len(text) - 1))
  ELSE text
Trim(text) == TrimEnd(TrimStart(text))

\* the separators of /[,\-\/\|>→]/
Separators == {",", "-", "/", "|", ">"}

\* String.prototype.split on the separators
RECURSIVE Split(_, _)
Split(text, cur) ==
  IF text = <<>> THEN << cur >>
  ELSE IF Head(text) \in Separators THEN << cur >> \o Split(Tail(text), <<>>)
  ELSE Split(Tail(text), Append(cur, Head(text)))

\* lowerText.split(...).map(p => p.trim()).filter(p => p.length > 0)
PartsOf(lowerText) ==
  SelectSeq([i \in 1..Len(Split(lowerText, <<>>)) |-> Trim(Split(lowerText, <<>>)[i])],
            LAMBDA q : Len(q) > 0)

\* the GND mapping of gnd_mapping.js: entries <<area name, council>> in the
\* order of the table
GND_MC_MAPPING == << <<Malabe, "Kaduwela MC">>, <<<<"a", "x">>, "Colombo MC">> >>

Nawala == <<"n", "a", "w">>
kaduwelaAreas == {Malabe}
kotteAreas == {Nawala}
colomboAreas == {Colombo7}

\* the first element of s that satisfies Test, if any
FirstSuch(s, Test(_)) ==
  IF SelectSeq(s, Test) = <<>> THEN None ELSE Some(Head(SelectSeq(s, Test)))

\* for (const part of parts) if (GND_MC_MAPPING[part]) return GND_MC_MAPPING[part]
ExactMatch(parts) ==
  LET Hit(q) == \E i \in 1..Len(GND_MC_MAPPING) : GND_MC_MAPPING[i][1] = q
      q == FirstSuch(parts, Hit)
  IN IF q = None THEN None
     ELSE Some(FirstSuch(GND_MC_MAPPING, LAMBDA e : e[1] = q[1])[1][2])

\* for each part, for each entry: part.includes(gnd) || gnd.includes(part)
PartMatch(parts) ==
  LET Near(q, e) == Includes(q, e[1]) \/ Includes(e[1], q)
      Hit(q) == \E i \in 1..Len(GND_MC_MAPPING) : Near(q, GND_MC_MAPPING[i])
      q == FirstSuch(parts, Hit)
  IN IF q = None THEN None
     ELSE Some(FirstSuch(GND_MC_MAPPING, LAMBDA e : Near(q[1], e))[1][2])

\* for each entry: lowerText.includes(gnd)
FullTextMatch(lowerText) ==
  LET e == FirstSuch(GND_MC_MAPPING, LAMBDA x : Includes(lowerText, x[1]))
  IN IF e = None THEN None ELSE Some(e[1][2])

\* the three hardcoded lists
Fallback(lowerText) ==
  IF \E loc \in kaduwelaAreas : Includes(lowerText, loc) THEN "Kaduwela MC"
  ELSE IF \E loc \in kotteAreas : Includes(lowerText, loc)
       THEN "Sri Jayawardenepura Kotte MC"
  ELSE IF \E loc \in colomboAreas : Includes(lowerText, loc) THEN "Colombo MC"
  ELSE "Other"

\* what follows the test of the input: loaded is typeof GND_MC_MAPPING !== 'undefined'
ResolveText(text, loaded) ==
  LET lowerText == Trim(ToLowerCase(text))
      parts == PartsOf(lowerText)
  IN IF loaded /\ ExactMatch(parts) # None THEN ExactMatch(parts)[1]
     ELSE IF loaded /\ PartMatch(parts) # None THEN PartMatch(parts)[1]
     ELSE IF loaded /\ FullTextMatch(lowerText) # None THEN FullTextMatch(lowerText)[1]
     ELSE Fallback(lowerText)

\* the test of the input made after trimming it
UnknownWhenBlank(locationText, loaded) ==
  IF locationText = None \/ Trim(locationText[1]) = <<>> THEN "Unknown"
  ELSE ResolveText(locationText[1], loaded)

\* locationText is absent (None) or a text; if (!locationText) return 'Unknown'
getMunicipalCouncil(locationText, loaded) ==
  IF locationText = None \/ locationText[1] = <<>> THEN "Unknown"
  ELSE ResolveText(locationText[1], loaded)

RegionTokens ==
  {Malabe, <<"M", "A", "L">>, Nawala, Colombo7, <<"a">>, <<"x">>, <<"q">>, <<" ">>,
   <<",">>, <<"-">>, <<">">>}
RegionTexts == {Flatten(ts) : ts \in SeqsUpTo(RegionTokens, MaxTokens)}

InitRegion ==
  /\ IdleContext
  /\ \E input \in {None} \cup {Some(t) : t \in RegionTexts}, loaded \in BOOLEAN :
       lab = [phase |-> "region", input |-> input, loaded |-> loaded, out |-> ""]

\* extractFromCard: municipalCouncil: getMunicipalCouncil(location)
ResolveRegion ==
  /\ lab.phase = "region"
  /\ lab' = [lab EXCEPT !.phase = "resolved",
                        !.out = getMunicipalCouncil(lab.input, lab.loaded)]
  /\ UNCHANGED <<storage, site, href, memory, runs, popup, left, hist>>

NextRegion == ResolveRegion

SpecRegion == InitRegion /\ [][NextRegion]_vars

(***************************************************************************)
(* SpecSize: parseSize applied to texts made of measures (a number, an     *)
(* optional blank, a word) and plain words                                 *)
(***************************************************************************)
Digits == <<"0", "1", "2", "3", "4", "5", "6", "7", "8", "9">>
DigitChars == {Digits[d] : d \in 1..10}
IsDigit(c) == c \in DigitChars
DigitValue(c) == (CHOOSE d \in 1..10 : Digits[d] = c) - 1
Letters == {"a", "c", "d", "e", "h", "l", "m", "n", "o", "p", "r", "s"}

\* \b after position i - 1: the text ends there or a non-word character follows
BoundaryAt(text, i) == i > Len(text) \/ ~(IsDigit(text[i]) \/ text[i] \in Letters)

\* the first position from i on whose character is not in chars (Len + 1 if none)
RECURSIVE RunEnd(_, _, _)
RunEnd(text, i, chars) ==
  IF i > Len(text) \/ text[i] \notin chars THEN i ELSE RunEnd(text, i + 1, chars)

StartsWith(text, i, word) ==
  i + Len(word) - 1 <= Len(text) /\ SubSeq(text, i, i + Len(word) - 1) = word

\* (\d+\.?\d*) from position i: the position after the number, 0 when no digit
\* stands at i
NumberEnd(text, i) ==
  IF i > Len(text) \/ ~IsDigit(text[i]) THEN 0
  ELSE LET a == RunEnd(text, i, DigitChars)
           b == IF a <= Len(text) /\ text[a] = "." THEN a + 1 ELSE a
       IN RunEnd(text, b, DigitChars)

\* (\d+\.?\d*)\s*(?:word|...|letter\b) matched from position i; wordy is
\* whether the letter alternative carries \b
MatchesAt(text, i, word, letter, wordy) ==
  /\ NumberEnd(text, i) # 0
  /\ LET k == RunEnd(text, NumberEnd(text, i), {" "})
     IN \/ StartsWith(text, k, word)
        \/ StartsWith(text, k, letter) /\ (~wordy \/ BoundaryAt(text, k + Len(letter)))

\* String.prototype.match: the capture of the leftmost match, if any
FirstCapture(text, word, letter, wordy) ==
  LET starts == {i \in 1..Len(text) : MatchesAt(text, i, word, letter, wordy)}
      i == CHOOSE x \in starts : \A y \in starts : x <= y
  IN IF starts = {} THEN None ELSE Some(SubSeq(text, i, NumberEnd(text, i) - 1))

\* the integer a run of digits denotes
RECURSIVE DigitsValue(_)
DigitsValue(ds) ==
  IF ds = <<>> THEN 0 ELSE 10 * DigitsValue(SubSeq(ds, 1, Len(ds) - 1)) + DigitValue(ds[Len(ds)])

\* parseFloat of a capture, in hundredths (captures carry at most 2 decimals)
ParseFloat(capture) ==
  LET a == RunEnd(capture, 1, DigitChars)
      whole == SubSeq(capture, 1, a - 1)
      frac == SubSeq(capture, a + 1, Len(capture))
  IN 100 * DigitsValue(whole)
       + (IF Len(frac) = 0 THEN 0
          ELSE IF Len(frac) = 1 THEN 10 * DigitsValue(frac) ELSE DigitsValue(frac))

\* parseSize; the result is in hundredths of a perch
parseSize(sizeText) ==
  IF sizeText = <<>> THEN None
  ELSE LET lowerText == ToLowerCase(sizeText)
           perchMatch == FirstCapture(lowerText, <<"p", "e", "r", "c", "h">>, <<"p">>, TRUE)
           acreMatch == FirstCapture(lowerText, <<"a", "c", "r", "e">>, <<"a", "c">>, FALSE)
           roodMatch == FirstCapture(lowerText, <<"r", "o", "o", "d">>, <<"r">>, TRUE)
       IN IF perchMatch # None THEN Some(ParseFloat(perchMatch[1]))
          ELSE IF acreMatch # None THEN Some(ParseFloat(acreMatch[1]) * 160)
          ELSE IF roodMatch # None THEN Some(ParseFloat(roodMatch[1]) * 40)
          ELSE None

PerchTokens == {<<"p", "e", "r", "c", "h", "e", "s">>, <<"P">>}
AcreTokens == {<<"a", "c", "r", "e", "s">>, <<"A", "c">>}
RoodTokens == {<<"r", "o", "o", "d", "s">>, <<"r">>}
OtherWords == {<<"a", "c", "c", "e", "s", "s">>, <<"p", "m">>, <<"r", "o", "o", "m", "s">>}
SizeNumbers == {[text |-> <<"1", "0">>, value |-> 1000],
                [text |-> <<"0", ".", "5">>, value |-> 50],
                [text |-> <<"2">>, value |-> 200]}

\* a number followed, with or without a blank, by a unit token or another word
Measures ==
  {[num |-> n, sp |-> sp, word |-> w] :
     n \in SizeNumbers, sp \in {<<>>, <<" ">>},
     w \in PerchTokens \cup AcreTokens \cup RoodTokens \cup OtherWords}

\* the text of a sequence of measures, blanks between them
RECURSIVE SizeText(_)
SizeText(ms) ==
  IF ms = <<>> THEN <<>>
  ELSE Head(ms).num.text \o Head(ms).sp \o Head(ms).word
         \o (IF Len(ms) > 1 THEN <<" ">> ELSE <<>>) \o SizeText(Tail(ms))

InitSize ==
  /\ IdleContext
  /\ \E ms \in SeqsUpTo(Measures, MaxMeasures) :
       lab = [phase |-> "size", measures |-> ms, out |-> None]

\* extractFromCard: const size = parseSize(sizeText)
ParseSize ==
  /\ lab.phase = "size"
  /\ lab' = [lab EXCEPT !.phase = "sized", !.out = parseSize(SizeText(lab.measures))]
  /\ UNCHANGED <<storage, site, href, memory, runs, popup, left, hist>>

NextSize == ParseSize

SpecSize == InitSize /\ [][NextSize]_vars

(***************************************************************************)
(* SpecCsv: generateCSV applied to listings whose text fields run over     *)
(* every text of up to MaxFieldLen characters of an alphabet with comma,   *)
(* double quote, line feed and carriage return                             *)
(***************************************************************************)
Quote == "\""
LineFeed == "\n"
Return == "\r"
BOM == "BOM"

RECURSIVE Join(_, _)
Join(texts, sep) ==
  IF texts = <<>> THEN <<>>
  ELSE IF Len(texts) = 1 THEN Head(texts)
  ELSE Head(texts) \o sep \o Join(Tail(texts), sep)

\* str.replace(/"/g, '""')
DoubleQuotes(str) == Flatten([i \in 1..Len(str) |-> IF str[i] = Quote THEN <<Quote, Quote>>
                                                     ELSE <<str[i]>>])

\* escapeCSV wrapping in quotes without doubling the quotes inside
WrapOnly(value) ==
  IF value = None THEN <<>>
  ELSE IF \E i \in 1..Len(value[1]) : value[1][i] \in {",", Quote, LineFeed, Return}
       THEN <<Quote>> \o value[1] \o <<Quote>>
  ELSE value[1]

\* value is absent (null, undefined) or a text
escapeCSV(value) ==
  IF value = None THEN <<>>
  ELSE IF \E i \in 1..Len(value[1]) : value[1][i] \in {",", Quote, LineFeed, Return}
       THEN <<Quote>> \o DoubleQuotes(value[1]) \o <<Quote>>
  ELSE value[1]

headers ==
  << <<"id">>, <<"title">>, <<"address">>, <<"municipal_council">>, <<"price_total">>,
     <<"price_per_perch">>, <<"price_raw">>, <<"size_perches">>, <<"latitude">>,
     <<"longitude">>, <<"source">>, <<"url">>, <<"posted_date">>, <<"scraped_date">> >>

\* String(n) of a number below 10; x || '' of an optional number
NumText(n) == << Digits[n + 1] >>
NumOrEmpty(x) == IF TruthyNum(x) THEN NumText(x[1]) ELSE <<>>

\* scrapedAt.split('T')[0]
BeforeT(text) ==
  LET ts == {i \in 1..Len(text) : text[i] = "T"}
  IN IF ts = {} THEN text
     ELSE SubSeq(text, 1, (CHOOSE i \in ts : \A j \in ts : i <= j) - 1)

\* the row of generateCSV for the listing at position index (from 1)
CsvRow(listing, index) ==
  Join(<< NumText(index),
          escapeCSV(listing.title),
          escapeCSV(listing.address),
          escapeCSV(listing.municipalCouncil),
          NumOrEmpty(listing.priceTotal),
          NumOrEmpty(listing.pricePerPerch),
          escapeCSV(listing.priceRaw),
          NumOrEmpty(listing.sizePerches),
          NumOrEmpty(listing.latitude),
          NumOrEmpty(listing.longitude),
          escapeCSV(listing.source),
          escapeCSV(listing.url),
          listing.postedDate,
          BeforeT(listing.scrapedAt) >>, <<",">>)

generateCSV(listings) ==
  <<BOM>> \o Join(<< Join(headers, <<",">>) >>
                    \o [i \in 1..Len(listings) |-> CsvRow(listings[i], i)], <<LineFeed>>)

CsvChars == {"a", ",", Quote, LineFeed, Return}
CsvTexts == {None} \cup {Some(t) : t \in SeqsUpTo(CsvChars, MaxFieldLen)}

ExportListings ==
  {[title |-> title, address |-> address, municipalCouncil |-> Some(<<"O">>),
    priceTotal |-> Some(5), pricePerPerch |-> None, priceRaw |-> priceRaw,
    sizePerches |-> Some(0), latitude |-> Some(6), longitude |-> None,
    source |-> Some(<<"i">>), url |-> Some(<<"u">>), postedDate |-> <<>>,
    scrapedAt |-> <<"2", "0", "2", "6", "T", "0", "9">>] :
     title \in CsvTexts,
     address \in {None, Some(<<LineFeed, Quote>>)},
     priceRaw \in {Some(<<"1", ",", "0">>)}}

InitCsv ==
  /\ IdleContext
  /\ \E listings \in SeqsUpTo(ExportListings, MaxExport) :
       lab = [phase |-> "export", listings |-> listings, csv |-> <<>>]

\* GENERATE_CSV: const csvContent = generateCSV(listings)
GenerateCsv ==
  /\ lab.phase = "export"
  /\ lab' = [lab EXCEPT !.phase = "exported", !.csv = generateCSV(lab.listings)]
  /\ UNCHANGED <<storage, site, href, memory, runs, popup, left, hist>>

NextCsv == GenerateCsv

SpecCsv == InitCsv /\ [][NextCsv]_vars

(***************************************************************************)
(* SpecNext: getNextPageUrl of both adapters on every page and every       *)
(* pagination the page can show                                            *)
(***************************************************************************)
InitNext ==
  /\ IdleContext
  /\ \E cur \in Pages, dom \in Doms : lab = [phase |-> "next", cur |-> cur, dom |-> dom, out |-> None]

\* goToNextPage: const nextUrl = scraper.getNextPageUrl()
GetNextPageUrl ==
  /\ lab.phase = "next"
  /\ lab' = [lab EXCEPT !.phase = "found", !.out = getNextPageUrl(site, lab.cur, lab.dom)]
  /\ UNCHANGED <<storage, site, href, memory, runs, popup, left, hist>>

NextNext == GetNextPageUrl

SpecNext == InitNext /\ [][NextNext]_vars

(***************************************************************************)
(* SpecEnrich: one card loop with detail scraping on, over every page of   *)
(* up to MaxCards cards and every answer of the site to each detail fetch  *)
(***************************************************************************)
Feb15 == "2026-02-15"

EnrichCards ==
  {Card(None, Malabe, None),
   Card(Some(1), Malabe, None),
   Card(Some(2), Kandy, MapUrl(Some(Colombo), None, None))}

\* answers of the site: a failure with an empty body, a failure whose body
\* carries a map, a date and a location, and two successes
EnrichDocs ==
  {[NoLinks EXCEPT !.ok = FALSE],
   [NoLinks EXCEPT !.ok = FALSE, !.dataAttr = Some(Colombo), !.postedDate = Some(Feb15),
                   !.address = Some(Colombo7)],
   NoLinks,
   [NoLinks EXCEPT !.dataAttr = Some(Colombo), !.postedDate = Some(Feb15),
                   !.address = Some(Colombo7)]}

InitEnrich ==
  /\ storage = InstalledStorage
  /\ site \in Sites
  /\ href = 1
  /\ isRunning = TRUE
  /\ filterLocations \in BOOLEAN
  /\ scrapeDetails = TRUE
  /\ pageDelay = DEFAULT_PAGE_DELAY
  /\ visitedPages = <<>>
  /\ customLocations = DEFAULT_LOCATIONS
  /\ runs = << Task("start_set") >>
  /\ popup = [pc |-> "idle", cfg |-> None]
  /\ left = [starts |-> 0, stops |-> 0, reloads |-> 0, uiWrites |-> 0]
  /\ hist = NoHist
  /\ \E page \in SeqsUpTo(EnrichCards, MaxCards), docs \in [Urls -> EnrichDocs] :
       lab = [phase |-> "enrich", page |-> page, docs |-> docs]

\* what the site answers to the fetch the card loop is suspended on
Fetched == lab.docs[Head(runs[1].cards).url[1]]

NextEnrich ==
  \/ StartSetDone(1, {lab.page})
  \/ FetchDone(1, IF runs[1].cards = <<>> THEN {} ELSE {Fetched})

SpecEnrich == InitEnrich /\ [][NextEnrich]_vars

(***************************************************************************)
(* SpecRace: START commands arriving while a crawl with detail scraping is *)
(* under way, on a site whose detail page shows its map on some fetches    *)
(* and not on others                                                       *)
(***************************************************************************)
RaceDocs == {NoLinks, [NoLinks EXCEPT !.dataAttr = Some(Colombo)]}

InitRace == InitWith([starts |-> MaxRestarts, stops |-> 0, reloads |-> 0, uiWrites |-> 0])

NextRace ==
  \/ StartCommand(CtlCfgs)
  \/ CrawlStep(CtlCardSeqs, RaceDocs)

SpecRace == InitRace /\ [][NextRace]_vars

(***************************************************************************)
(* One page whose cards fail singly: extractFromCard throwing or finding   *)
(* no listing URL, among cards that extract                                *)
(***************************************************************************)
MaxPageCards == 3

FailingCards ==
  {Card(Some(1), Malabe, None),
   Card(Some(2), Malabe, None),
   Card(Some(2), Kandy, None),
   Card(None, Malabe, None),
   [Card(Some(3), Malabe, None) EXCEPT !.broken = TRUE]}

InitCards ==
  /\ storage = InstalledStorage
  /\ site \in Sites
  /\ href = 1
  /\ isRunning = TRUE
  /\ filterLocations \in BOOLEAN
  /\ scrapeDetails \in BOOLEAN
  /\ pageDelay = DEFAULT_PAGE_DELAY
  /\ visitedPages = <<>>
  /\ customLocations = DEFAULT_LOCATIONS
  /\ runs = << Task("start_set") >>
  /\ popup = [pc |-> "idle", cfg |-> None]
  /\ left = [starts |-> 0, stops |-> 0, reloads |-> 0, uiWrites |-> 0]
  /\ hist = NoHist
  /\ \E page \in SeqsUpTo(FailingCards, MaxPageCards) :
       lab = [phase |-> "cards", page |-> page, threw |-> FALSE]

\* runScraper begins on the page; threw records an exception of the page
\* cycle outside the card loop
BeginOnPage ==
  /\ runs[1].pc = "start_set"
  /\ \E throws \in BOOLEAN, readOk \in BOOLEAN :
       LET task == BeginRun(isRunning, lab.page, throws, readOk)
       IN /\ SetRun(1, task)
          /\ hist' = Noted(task)
          /\ lab' = [lab EXCEPT !.threw = throws]
  /\ UNCHANGED <<storage, site, href, memory, popup, left>>

NextCards ==
  \/ BeginOnPage
  \/ FetchDone(1, CtlDocs)

SpecCards == InitCards /\ [][NextCards]_vars

(***************************************************************************)
(* SpecHalt: START commands arriving while a crawl is under way, and STOP  *)
(***************************************************************************)
InitHalt == InitWith([starts |-> MaxRestarts, stops |-> MaxStops, reloads |-> 0,
                      uiWrites |-> 0])

NextHalt ==
  \/ StartCommand(CtlCfgs)
  \/ PopupStopClick
  \/ PopupStopMark
  \/ CrawlStep(CtlCardSeqs, CtlDocs)

SpecHalt == InitHalt /\ [][NextHalt]_vars

(***************************************************************************)
(* SpecExport: the popup's Export & Clear while a crawl is under way       *)
(***************************************************************************)
ExportCardSeqs == {<< Card(Some(1), Malabe, None) >>, << Card(Some(2), Malabe, None) >>}

\* the export: where exportAndClear and the worker's GENERATE_CSV handler
\* stand, the collection the handler read, the records given to generateCSV
\* and the collection the clear step replaced
NoExport == [phase |-> "export", pc |-> "idle", read |-> None, exported |-> None,
             removed |-> None]

InitExport ==
  /\ storage = InstalledStorage
  /\ site \in Sites
  /\ href = 1
  /\ isRunning = FALSE
  /\ filterLocations = TRUE
  /\ scrapeDetails = FALSE
  /\ pageDelay = DEFAULT_PAGE_DELAY
  /\ visitedPages = <<>>
  /\ customLocations = DEFAULT_LOCATIONS
  /\ runs = << [Task("resume_get") EXCEPT !.snap = Some(InstalledStorage)] >>
  /\ popup = [pc |-> "idle", cfg |-> None]
  /\ left = [starts |-> MaxStarts, stops |-> 0, reloads |-> 0, uiWrites |-> 0]
  /\ hist = NoHist
  /\ lab = NoExport

\* popup.js exportAndClear: the GENERATE_CSV message is sent
ExportClick ==
  /\ lab.pc = "idle"
  /\ lab' = [lab EXCEPT !.pc = "csv_send"]
  /\ UNCHANGED <<storage, site, href, memory, runs, popup, left, hist>>

\* the worker's handler issues chrome.storage.local.get(['listings']); the
\* read fails or returns the collection as it is now
GenerateCsvReceived ==
  /\ lab.pc = "csv_send"
  /\ \E readOk \in BOOLEAN :
       lab' = [lab EXCEPT !.pc = "csv_get",
                          !.read = IF readOk THEN Some(storage.listings) ELSE None]
  /\ UNCHANGED <<storage, site, href, memory, runs, popup, left, hist>>

\* the handler after its read: the failure responses, or generateCSV and the
\* download being issued
GenerateCsvGetDone ==
  /\ lab.pc = "csv_get"
  /\ lab' = IF lab.read = None \/ Len(lab.read[1]) = 0
            THEN [lab EXCEPT !.pc = "export_failed"]
            ELSE [lab EXCEPT !.pc = "csv_download", !.exported = lab.read]
  /\ UNCHANGED <<storage, site, href, memory, runs, popup, left, hist>>

\* chrome.downloads.download settles: success: true, or the catch's
\* success: false; exportAndClear then waits 1000 ms or logs the failure
DownloadDone ==
  /\ lab.pc = "csv_download"
  /\ \E ok \in BOOLEAN :
       lab' = [lab EXCEPT !.pc = IF ok THEN "purge_wait" ELSE "export_failed"]
  /\ UNCHANGED <<storage, site, href, memory, runs, popup, left, hist>>

\* exportAndClear after its timer: set({ listings: [], pagesScraped: 0 })
PurgeWaitDone ==
  /\ lab.pc = "purge_wait"
  /\ storage' = [storage EXCEPT !.listings = <<>>, !.pagesScraped = 0]
  /\ lab' = [lab EXCEPT !.pc = "purged", !.removed = Some(storage.listings)]
  /\ UNCHANGED <<site, href, memory, runs, popup, left, hist>>

NextExport ==
  \/ StartCommand(CtlCfgs)
  \/ CrawlStep(ExportCardSeqs, CtlDocs)
  \/ ExportClick
  \/ GenerateCsvReceived
  \/ GenerateCsvGetDone
  \/ DownloadDone
  \/ PurgeWaitDone

SpecExport == InitExport /\ [][NextExport]_vars

(***************************************************************************)
(* SpecLive: one crawl under STOP, the tab left alone; every pending       *)
(* continuation of the crawl (a storage call, a fetch, a timer, a page     *)
(* load) eventually runs                                                   *)
(***************************************************************************)
InitLive == InitWith([starts |-> MaxStarts, stops |-> MaxStops, reloads |-> 0,
                      uiWrites |-> 0])

NextLive ==
  \/ StartCommand(CtlCfgs)
  \/ PopupStopClick
  \/ PopupStopMark
  \/ CrawlStep(CtlCardSeqs, CtlDocs)

SpecLive == InitLive /\ [][NextLive]_vars /\ WF_vars(CrawlStep(CtlCardSeqs, CtlDocs))

(***************************************************************************)
(* Properties                                                              *)
(***************************************************************************)
\* the step stays in the page context it started in
SameContext == href' = href /\ left'.reloads = left.reloads

\* task t leaves pc from in this step, in the same page context
Leaves(t, from) ==
  /\ SameContext
  /\ t \in 1..Len(runs)
  /\ runs[t].pc = from
  /\ runs'[t].pc # from

\* some runScraper passes its isRunning test in this step
SomeCycleStarts == \E t \in 1..Len(runs) : SameContext /\ CycleStarted(runs[t], runs'[t])

\* C1: in a page cycle whose adapter returns a next-page URL whose canonical form
\* is in the visited set (the current page included), the crawler does not
\* navigate: it clears isRunning and the persisted isScraping, and from there
\* only reads the listings and sends SCRAPING_COMPLETE.
C1_LoopGuardCompletes ==
  [][\A t \in 1..Len(runs) :
       /\ (/\ Leaves(t, "page_sleep")
           /\ runs'[t].next # None
           /\ SetHas(visitedPages', Normalize(runs'[t].next[1])))
          => /\ runs'[t].pc = "complete_set"
             /\ ~isRunning'
             /\ ~storage'.isScraping
       /\ Leaves(t, "complete_set") => runs'[t].pc = "complete_get"
       /\ Leaves(t, "complete_get") => runs'[t].pc = "done" /\ runs'[t].outcome = "completed"]_vars

\* C1 witness: a cycle on page 2 has completed because the adapter pointed back to page 1
C1_Witness ==
  \E t \in 1..Len(runs) :
    /\ runs[t].pc = "done" /\ runs[t].outcome = "completed" /\ runs[t].guard = "loop"
    /\ href = 2 /\ Normalize(runs[t].next[1]) = 1

\* C4: once STOP has been received by a page context, that context neither
\* navigates nor starts a page cycle until a START is received.
C4_StopHalts ==
  [][(hist.stopped /\ left'.starts = left.starts /\ left'.reloads = left.reloads)
       => (href' = href /\ ~SomeCycleStarts)]_vars

\* C5: after a page-level exception no page cycle starts, in this page context
\* or a later one, until a START is received.
C5_NoAutomaticRetry ==
  [][(hist.failed /\ left'.starts = left.starts) => ~SomeCycleStarts]_vars

\* C6: the crawler's navigation is the continuation of goToNextPage's write, and
\* that write stores isScraping = true, the configuration in effect and a
\* visited list that contains the page being left.
C6_PersistBeforeNavigate ==
  [][/\ (left'.reloads = left.reloads /\ href' # href)
          => \E t \in 1..Len(runs) :
               runs[t].pc = "nav_set" /\ href' = Normalize(runs[t].next[1])
     /\ \A t \in 1..Len(runs) :
          (Leaves(t, "page_sleep") /\ runs'[t].pc = "nav_set")
            => /\ storage'.isScraping
               /\ storage'.filterLocations = Some(filterLocations')
               /\ storage'.scrapeDetails = Some(scrapeDetails')
               /\ storage'.pageDelay # None
               /\ ToMs(storage'.pageDelay[1]) = pageDelay'
               /\ storage'.visitedPages # None
               /\ SetHas(storage'.visitedPages[1], href)]_vars

\* C6 witness: the crawler has navigated from page 1 to page 2
C6_Witness ==
  /\ href = 2
  /\ storage.isScraping
  /\ storage.visitedPages # None /\ SetHas(storage.visitedPages[1], 1)
  /\ runs[1].pc = "resume_get"

\* C7: when the crawler navigates and the next page context resumes with no
\* write by the UI in between, the configuration and the visited set after the
\* resume are those in effect at the moment of the navigation.
C7_ResumeRoundTrip ==
  [][(Leaves(1, "resume_get") /\ runs'[1].pc = "settle" /\ hist.navCfg # None)
       => Config' = hist.navCfg[1]]_vars

\* C8: right after a START command is processed the visited set is empty in
\* memory and in the persisted state.
C8_StartResetsVisited ==
  [][left'.starts < left.starts
       => (visitedPages' = <<>> /\ storage'.visitedPages = Some(<<>>))]_vars

\* C8 witness: a START has just been handled on page 2, which the first crawl
\* reached by navigating from page 1
C8_Witness ==
  /\ href = 2
  /\ left.starts = 0
  /\ runs[Len(runs)].pc = "start_set"
  /\ visitedPages = <<>>
  /\ storage.visitedPages = Some(<<>>)

\* every record of the store and of the batches being built
Produced ==
  {storage.listings[i] : i \in 1..Len(storage.listings)}
    \cup UNION {{runs[t].listings[i] : i \in 1..Len(runs[t].listings)} : t \in 1..Len(runs)}

\* C2: the persisted listings never hold two records with the same url.
C2_StoreUniqueness ==
  \A i, j \in 1..Len(storage.listings) :
    i # j => storage.listings[i].url # storage.listings[j].url

\* C3: saving the same batch a second time leaves the collection the first call
\* left, records and order, and the second call returns 0.
C3_UpsertIdempotent ==
  lab.phase = "done" => (storage.listings = lab.once /\ lab.second = 0)

\* C3 witness: a batch that holds one url twice has been saved twice into a
\* store that did not have it, and the first call inserted both records
C3_Witness ==
  /\ lab.phase = "done"
  /\ Len(lab.batch) >= 2
  /\ lab.batch[1].url = lab.batch[2].url
  /\ lab.first >= 2
  /\ Len(storage.listings) > lab.first

\* C9: every record with coordinates has its latitude in [5.9, 9.9] and its
\* longitude in [79.5, 81.9], whatever the coordinates were read from.
C9_BoundingBox ==
  \A r \in Produced :
    (r.latitude # None /\ r.longitude # None) => InSriLanka(r.latitude[1], r.longitude[1])

\* C10: in every record latitude is absent exactly when longitude is absent.
C10_PairAllOrNothing ==
  \A r \in Produced : (r.latitude = None) <=> (r.longitude = None)

\* C10 witness: the store holds a record whose pair came from the detail page
\* and a record without coordinates
C10_Witness ==
  /\ site = "ikman"
  /\ \E i, j \in 1..Len(storage.listings) :
       /\ storage.listings[i].latitude # None /\ storage.listings[i].longitude # None
       /\ storage.listings[j].latitude = None /\ storage.listings[j].longitude = None

\* a text contains a target location, compared in lower case
ContainsTarget(text) ==
  \E loc \in customLocations :
    \E a, b \in 0..Len(text) :
      a <= b /\ ToLowerCase(SubSeq(text, a + 1, b)) = ToLowerCase(loc)

\* the cards the adapter yields for the page shown, with a resolvable URL
Resolvable == SelectSeq(getListingCards(site, lab.page), LAMBDA c : c.url # None)

\* the cards whose record the filter must keep
MustKeep(c) == ~filterLocations \/ ContainsTarget(c.loc) \/ ContainsTarget(c.title)

\* C11: when the card loop has ended, the batch holds the records of exactly the
\* cards with a resolvable URL whose address or title contains a target location
\* (every such card when filtering is off), in the order of the cards.
C11_LocationFilter ==
  (lab.phase = "page" /\ runs[1].pc \in {"save_get", "pages_get"})
    => /\ Len(runs[1].listings) = Len(SelectSeq(Resolvable, MustKeep))
       /\ \A i \in 1..Len(runs[1].listings) :
            /\ runs[1].listings[i].url = SelectSeq(Resolvable, MustKeep)[i].url
            /\ runs[1].listings[i].address = SelectSeq(Resolvable, MustKeep)[i].loc
            /\ runs[1].listings[i].title = SelectSeq(Resolvable, MustKeep)[i].title

\* C11 witness: a page of 3 cards of which exactly one matches, by its title and
\* in another case than the target's, has given a batch of exactly 1 record
C11_Witness ==
  /\ lab.phase = "page"
  /\ filterLocations
  /\ customLocations = {Malabe}
  /\ Len(getListingCards(site, lab.page)) = 3
  /\ runs[1].pc = "save_get"
  /\ Len(runs[1].listings) = 1
  /\ runs[1].listings[1].address = <<>>
  /\ runs[1].listings[1].title = <<"M", "A", "L", "x">>

\* out is the quotient lab.price / lab.size rounded to the nearest integer
IsRoundedQuotient ==
  /\ lab.out # None
  /\ 2 * lab.out[1] * lab.size[1] - lab.size[1] <= 2 * lab.price[1]
  /\ 2 * lab.price[1] < 2 * lab.out[1] * lab.size[1] + lab.size[1]

\* the decision table below its first line
PriceTable ==
  IF lab.perPerch THEN lab.out = lab.price
  ELSE IF lab.price[1] > 5000000 /\ lab.size[1] < 50 THEN IsRoundedQuotient
  ELSE IF lab.price[1] < 500000 THEN lab.out = lab.price
  ELSE IF lab.price[1] > 1000000 THEN IsRoundedQuotient
  ELSE lab.out = lab.price

C13_OtherwiseDivides ==
  (/\ lab.phase = "priced"
   /\ ~lab.perPerch
   /\ lab.price # None /\ lab.size # None
   /\ lab.size[1] > 0
   /\ lab.price[1] >= 500000
   /\ ~(lab.price[1] > 5000000 /\ lab.size[1] < 50))
    => IsRoundedQuotient

\* C14: the persisted pagesScraped never decreases, and the write that ends a
\* page cycle's updatePagesCount leaves it one above what it was.
C14_PageCounter ==
  [][/\ storage'.pagesScraped >= storage.pagesScraped
     /\ \A t \in 1..Len(runs) :
          Leaves(t, "pages_get") => storage'.pagesScraped = storage.pagesScraped + 1]_vars

\* the value the configuration in memory has for a key of the store
InEffect(key) ==
  IF key = "filterLocations" THEN filterLocations
  ELSE IF key = "scrapeDetails" THEN scrapeDetails
  ELSE ToSeconds(pageDelay)

\* C15: a setting the UI wrote to the store while page cycle n was in progress
\* is the one in effect when the next page context resumes for cycle n+1.
C15_UiChangeTakesEffect ==
  [][(/\ Leaves(1, "resume_get")
      /\ runs'[1].pc = "settle"
      /\ hist.uiSet # None
      /\ hist.uiSet[1].navs = 1)
       => InEffect(hist.uiSet[1].key)' = hist.uiSet[1].val]_vars

\* C16: at most one runScraper execution is in progress in a page context.
C16_SingleThread ==
  Cardinality({t \in 1..Len(runs) : InCycle(runs[t])}) <= 1

\* the URLs of the cards the loop has still to push, and of the records pushed
ToPush(cards) ==
  SelectSeq(cards, LAMBDA c : /\ c.url # None
                               /\ (~filterLocations \/ ContainsTarget(c.loc)
                                      \/ ContainsTarget(c.title)))
UrlsOf(s) == [i \in 1..Len(s) |-> s[i].url]

\* C17: when the detail fetch of a record fails, fetchDetailPageInfo returns all
\* four fields absent, the record is pushed with the fields its card gave, the
\* records pushed before stay, and the loop goes on with the remaining cards
\* (no card is dropped, and the page cycle does not fail).
C17_EnrichFailureAbsorbed ==
  [][(lab.phase = "enrich" /\ runs[1].pc = "fetch" /\ runs'[1] # runs[1] /\ ~Fetched.ok)
       => /\ fetchDetailPageInfo(Fetched, site) = NoInfo
          /\ runs'[1].pc \in {"fetch", "save_get"}
          /\ Len(runs'[1].listings) > Len(runs[1].listings)
          /\ SubSeq(runs'[1].listings, 1, Len(runs[1].listings) + 1)
               = Append(runs[1].listings, extractFromCard(site, Head(runs[1].cards)))
          /\ UrlsOf(runs'[1].listings) \o UrlsOf(ToPush(runs'[1].cards))
               = UrlsOf(runs[1].listings) \o UrlsOf(ToPush(runs[1].cards))]_vars

\* C17 witness: the fetch of the first of 2 cards failed with a body carrying a
\* map, the fetch of the second succeeded; both records are in the batch, the
\* first without coordinates and the second with the detail page's
C17_Witness ==
  /\ lab.phase = "enrich"
  /\ Len(lab.page) = 2
  /\ lab.page[1].url = Some(1) /\ lab.page[2].url = Some(2)
  /\ ~lab.docs[1].ok /\ lab.docs[1].dataAttr # None
  /\ lab.docs[2].ok /\ lab.docs[2].dataAttr # None
  /\ runs[1].pc = "save_get"
  /\ Len(runs[1].listings) = 2
  /\ runs[1].listings[1].latitude = None
  /\ runs[1].listings[1].postedDate = None
  /\ runs[1].listings[2].latitude # None
\* a is the beginning of b
IsPrefix(a, b) == Len(a) <= Len(b) /\ SubSeq(b, 1, Len(a)) = a

\* a can be had from b by leaving elements out, the order kept
RECURSIVE IsSubsequence(_, _)
IsSubsequence(a, b) ==
  IF a = <<>> THEN TRUE
  ELSE IF b = <<>> THEN FALSE
  ELSE IF Head(a) = Head(b) THEN IsSubsequence(Tail(a), Tail(b))
  ELSE IsSubsequence(a, Tail(b))

\* task t's saveListings writes the collection in this step
Saves(t) == Leaves(t, "save_get") /\ runs'[t].pc = "save_set"

\* C18: when saveListings writes, the collection stored before the write is the
\* beginning of the collection stored after it, and the records after that
\* beginning are records of the batch in the order of the batch.
C18_OrderPreserved ==
  [][\A t \in 1..Len(runs) :
       Saves(t) => /\ IsPrefix(storage.listings, storage'.listings)
                   /\ IsSubsequence(SubSeq(storage'.listings, Len(storage.listings) + 1,
                                            Len(storage'.listings)),
                                     runs[t].listings)]_vars
\* C19: no step of the crawl changes or removes a record that is in the store:
\* the record at each position of the stored collection is the same after.
C19_StoredNeverRewritten ==
  [][\A i \in 1..Len(storage.listings) :
       /\ i <= Len(storage'.listings)
       /\ storage'.listings[i] = storage.listings[i]]_vars
\* task t's goToNextPage finds no next-page URL, or only the current URL
FindsNoNext(t) ==
  /\ Leaves(t, "page_sleep")
  /\ isRunning
  /\ (runs'[t].next = None \/ Normalize(runs'[t].next[1]) = href)

\* C20: a page cycle that finds no next-page URL (or only the current URL) does
\* not navigate: it sets isRunning to false and writes isScraping false, then
\* reads the collection, then emits SCRAPING_COMPLETE once, carrying the number
\* of records of the collection it read, and returns.
C20_Completion ==
  [][\A t \in 1..Len(runs) :
       /\ FindsNoNext(t)
            => runs'[t].pc = "complete_set" /\ ~isRunning' /\ ~storage'.isScraping
       /\ Leaves(t, "complete_set")
            => runs'[t].pc = "complete_get" /\ runs'[t].num = Len(storage.listings)
       /\ Leaves(t, "complete_get")
            => /\ runs'[t].pc = "done" /\ runs'[t].outcome = "completed"
               /\ runs'[t].num = runs[t].num]_vars

\* C20 witness: a cycle that found no next-page URL has emitted SCRAPING_COMPLETE
\* with the count of a store that holds a record
C20_Witness ==
  \E t \in 1..Len(runs) :
    /\ runs[t].pc = "done" /\ runs[t].outcome = "completed" /\ runs[t].guard = "none"
    /\ runs[t].num = 1 /\ Len(storage.listings) = 1
    /\ ~isRunning /\ ~storage.isScraping
\* the lower-cased text matches an entry of the loaded mapping or an area of
\* the three lists
MatchesSomeArea(text, loaded) ==
  LET lowerText == Trim(ToLowerCase(text))
      Keys == IF loaded THEN {GND_MC_MAPPING[i][1] : i \in 1..Len(GND_MC_MAPPING)} ELSE {}
  IN \/ \E key \in Keys : Includes(lowerText, key)
     \/ \E key \in Keys : \E i \in 1..Len(PartsOf(lowerText)) :
          Includes(key, PartsOf(lowerText)[i])
     \/ \E loc \in kaduwelaAreas \cup kotteAreas \cup colomboAreas : Includes(lowerText, loc)

RECURSIVE FirstOf(_, _)
FirstOf(ms, units) ==
  IF ms = <<>> THEN None
  ELSE IF Head(ms).word \in units THEN Some(Head(ms).num.value)
  ELSE FirstOf(Tail(ms), units)

\* the size the priority perch, acre (x160), rood (x40) gives, in hundredths
SizeByPriority(ms) ==
  IF FirstOf(ms, PerchTokens) # None THEN FirstOf(ms, PerchTokens)
  ELSE IF FirstOf(ms, AcreTokens) # None THEN Some(FirstOf(ms, AcreTokens)[1] * 160)
  ELSE IF FirstOf(ms, RoodTokens) # None THEN Some(FirstOf(ms, RoodTokens)[1] * 40)
  ELSE None

\* C22: parseSize gives the number of the first perch measure if the text has
\* one, else 160 times that of the first acre measure, else 40 times that of
\* the first rood measure, whatever the order of the measures, and nothing when
\* the text has no unit token.
C22_SizePriority ==
  lab.phase = "sized" => lab.out = SizeByPriority(lab.measures)
\* a CSV reader: rows end at line feeds outside quotes, fields at commas outside
\* quotes, and a doubled quote inside quotes is a quote. A position is outside
\* quotes when an even number of quotes stands before it.
QuotesBefore(text, i) == Cardinality({j \in 1..(i - 1) : text[j] = Quote})
TopLevel(text, chars) ==
  {i \in 1..Len(text) : text[i] \in chars /\ QuotesBefore(text, i) % 2 = 0}

\* the k-th smallest element of a set of positions
Kth(positions, k) == CHOOSE p \in positions : Cardinality({q \in positions : q < p}) = k - 1

\* the pieces of text between the positions cuts
Pieces(text, cuts) ==
  LET n == Cardinality(cuts)
      Cut(k) == IF k = 0 THEN 0 ELSE IF k = n + 1 THEN Len(text) + 1 ELSE Kth(cuts, k)
  IN [k \in 1..(n + 1) |-> SubSeq(text, Cut(k - 1) + 1, Cut(k) - 1)]

\* a field without its wrapping quotes, each doubled quote read as one
Unquote(field) ==
  IF field = <<>> \/ field[1] # Quote THEN field
  ELSE LET inner == SubSeq(field, 2, Len(field) - 1)
           kept == {i \in 1..Len(inner) :
                      inner[i] # Quote \/ QuotesBefore(inner, i + 1) % 2 = 0}
       IN [k \in 1..Cardinality(kept) |-> inner[Kth(kept, k)]]

ReadRow(row) ==
  LET fields == Pieces(row, TopLevel(row, {","}))
  IN [k \in 1..Len(fields) |-> Unquote(fields[k])]

ReadCsv(doc) ==
  LET rows == Pieces(doc, TopLevel(doc, {LineFeed}))
  IN [r \in 1..Len(rows) |-> ReadRow(rows[r])]

\* the text a field value stands for (an absent value is written as nothing)
TextOf(value) == IF value = None THEN <<>> ELSE value[1]

\* C23: read back with quote handling, the exported file has one row per
\* listing after the header row, every row has the 14 columns of the header, and
\* the title, address and raw price columns of each row are the listing's values.
C23_CsvRoundTrip ==
  lab.phase = "exported"
    => LET rows == ReadCsv(lab.csv)
       IN /\ Len(rows) = 1 + Len(lab.listings)
          /\ \A r \in 1..Len(rows) : Len(rows[r]) = Len(headers)
          /\ Len(headers) = 14
          /\ \A i \in 1..Len(lab.listings) :
               /\ rows[i + 1][2] = TextOf(lab.listings[i].title)
               /\ rows[i + 1][3] = TextOf(lab.listings[i].address)
               /\ rows[i + 1][7] = TextOf(lab.listings[i].priceRaw)

\* C23 witness: a listing whose title is a comma followed by a double quote has
\* been exported with that title wrapped in quotes and its quote doubled
C23_Witness ==
  /\ lab.phase = "exported"
  /\ Len(lab.listings) = 2
  /\ lab.listings[2].title = Some(<<",", Quote>>)
  /\ lab.listings[2].address = Some(<<LineFeed, Quote>>)
  /\ escapeCSV(lab.listings[2].title) = <<Quote, ",", Quote, Quote, Quote>>
\* C24: when the read of saveListings has failed, saveListings writes nothing,
\* the stored listings stay as they are, it returns 0 and the page cycle goes on
\* with the page counter; and the stored listings only change in a step of a
\* saveListings whose read succeeded.
C24_FailedReadWritesNothing ==
  [][/\ \A t \in 1..Len(runs) :
          (Leaves(t, "save_get") /\ runs[t].existing = None)
            => /\ storage'.listings = storage.listings
               /\ runs'[t].pc = "pages_get"
               /\ runs'[t].saved = Some(0)
     /\ storage'.listings # storage.listings
          => \E t \in 1..Len(runs) : Saves(t) /\ runs[t].existing # None]_vars

\* C24 witness: with a record in the store, a page's batch has met a failed
\* read; saveListings has returned 0 and the cycle is at the page counter
C24_Witness ==
  \E t \in 1..Len(runs) :
    /\ runs[t].pc = "pages_get"
    /\ runs[t].saved = Some(0)
    /\ Len(storage.listings) = 1
    /\ href = 2
\* the adapter returns the href of an element of the page (a "next" control or
\* a pagination link) and not a URL it has built
TakenFromPage(st, cur, dom) ==
  IF st = "ikman"
  THEN (dom.nextBtn # None /\ dom.nextBtn[1] = cur + 1) \/ (cur + 1) \in dom.links
  ELSE dom.nextBtn # None

\* C25: when getNextPageUrl of either adapter returns the href of a "next"
\* control or pagination link, that URL is the one of page current + 1.
C25_NextIsCurrentPlusOne ==
  (lab.phase = "found" /\ TakenFromPage(site, lab.cur, lab.dom))
    => lab.out # None /\ Normalize(lab.out[1]) = lab.cur + 1
\* STOP was received in this page context while task t was in its card loop
\* (suspended on a detail fetch), and no START has come since
StoppedInLoop(t) ==
  /\ hist.stopped /\ ~isRunning
  /\ t \in 1..Len(hist.stopAt) /\ hist.stopAt[t] = "fetch"

\* C26: after a STOP received during the card loop of a page, the loop goes on to
\* its end (each fetched card is pushed), the batch is written to the store when
\* the store can be read, the page counter is incremented, and the cycle then
\* halts at the next test of isRunning; the page context does not navigate.
C26_StopKeepsPage ==
  [][\A t \in 1..Len(runs) :
       (StoppedInLoop(t) /\ left'.reloads = left.reloads /\ left'.starts = left.starts)
         => /\ href' = href
            /\ Leaves(t, "fetch")
                 => /\ runs'[t].pc \in {"fetch", "save_get"}
                    /\ Len(runs'[t].listings) = Len(runs[t].listings) + 1
            /\ (Leaves(t, "save_get") /\ runs[t].existing # None)
                 => \A i \in 1..Len(runs[t].listings) :
                      runs[t].listings[i].url \in ExistingUrls(storage'.listings)
            /\ Leaves(t, "save_set") => runs'[t].pc = "pages_get"
            /\ Leaves(t, "pages_get")
                 => /\ storage'.pagesScraped = storage.pagesScraped + 1
                    /\ runs'[t].pc = "pages_set"
            /\ Leaves(t, "pages_set")
                 => runs'[t].pc = "done" /\ runs'[t].outcome = "halted"]_vars

\* a card fails when its extraction throws or finds no listing URL
CardFails(c) == c.broken \/ c.url = None

\* the cards of a sequence that do not fail
Extracting(cards) == SelectSeq(cards, LAMBDA c : ~CardFails(c))

\* the cards the loop of task t has gone through
HandledBy(t) ==
  LET found == getListingCards(site, lab.page)
  IN SubSeq(found, 1, Len(found) - Len(runs[t].cards))

\* the card loop of task t is suspended on a fetch or has just returned
InOrAfterLoop(t) ==
  \/ runs[t].pc \in {"fetch", "save_get"}
  \/ runs[t].pc = "pages_get" /\ runs[t].saved = None

\* C27: on a page with failing cards, the cycle fails only through an
\* exception outside the card loop; while the loop runs and when it returns,
\* every failing card it has gone through is counted in skippedNull and absent
\* from the batch, and the batch holds, in page order, every other card it has
\* gone through that passes the location filter.
C27_CardFailuresSkipped ==
  lab.phase = "cards" =>
    /\ (runs[1].pc = "done" /\ runs[1].outcome = "failed") => lab.threw
    /\ hist.failed => lab.threw
    /\ InOrAfterLoop(1) =>
         /\ runs[1].skippedNull
              = Len(HandledBy(1)) - Len(Extracting(HandledBy(1)))
         /\ UrlsOf(runs[1].listings) = UrlsOf(ToPush(Extracting(HandledBy(1))))
         /\ runs[1].pc = "fetch" => ~CardFails(Head(runs[1].cards))

\* C27 witness: a page of three cards whose first throws and whose second has
\* no listing URL on SiteB, or whose first throws on SiteA; the loop has
\* returned with the other cards in the batch and the failures counted
C27_Witness ==
  /\ lab.phase = "cards"
  /\ ~lab.threw
  /\ Len(lab.page) = 3
  /\ lab.page[1].broken
  /\ runs[1].pc = "save_get"
  /\ runs[1].skippedNull >= 1
  /\ Len(runs[1].listings) = Len(lab.page) - runs[1].skippedNull
  /\ Len(runs[1].listings) >= 1
\* C28: once a page cycle has ended in the catch of runScraper (SCRAPING_ERROR
\* sent), the module's isRunning and the persisted isScraping are false and
\* GET_STATUS answers isRunning = false.
C28_FailureStops ==
  \A t \in 1..Len(runs) :
    (runs[t].pc = "done" /\ runs[t].outcome = "failed")
      => /\ ~isRunning
         /\ ~storage.isScraping
         /\ ~GetStatus.isRunning
\* task t navigates: the continuation of goToNextPage's write
Navigates(t) == runs[t].pc = "nav_set" /\ href' # href

Elements(set) == {set[i] : i \in 1..Len(set)}

\* C29 (navigation): at each navigation the visited set strictly includes the
\* visited set of the previous navigation of the crawl (the empty set at the
\* first), and the page context never navigates to a page on which a page
\* cycle has begun since the last START.
C29_NoRevisit ==
  [][\A t \in 1..Len(runs) :
       Navigates(t)
         => /\ Elements(hist.navVisited) \subseteq Elements(visitedPages)
            /\ Elements(hist.navVisited) # Elements(visitedPages)
            /\ href' \notin hist.seen]_vars
\* no continuation of the crawl is pending in the page context
CrawlEnded == \A t \in 1..Len(runs) : runs[t].pc = "done"

\* C29 (termination): a crawl started by START ends: every activation reaches
\* its return (completed, halted, failed, or not resumed after a STOP).
C29_Terminates == (\E t \in 1..Len(runs) : runs[t].pc = "start_set") ~> CrawlEnded
\* C30: in every interleaving of Export & Clear with a crawl, each record the
\* clear step removes from the store was among the records written to the
\* exported CSV, and a step of the export other than the clear leaves the
\* store as it is (so a failed export changes nothing).
C30_ClearLosesNothing ==
  [][lab.phase = "export" /\ lab' # lab
       => IF lab'.pc = "purged"
          THEN \A i \in 1..Len(storage.listings) :
                 storage.listings[i] \in Elements(lab.exported[1])
          ELSE storage' = storage]_vars
====
